---- MODULE Spec2Model ----
(***************************************************************************)
(* A model of the memory/context pipeline of the Slack/Gemini bot:         *)
(*   - the History Store   (slack_bot.py, load/save_chat_history),         *)
(*   - the Memory Store    (flat_memory_manager.py, FlatMemoryManager),    *)
(*   - the Context Assembler and the Model Invocation Loop                 *)
(*     (slack_bot.py, generate_response_with_history and                   *)
(*     _process_function_calls),                                           *)
(*   - the in-request Summarization Job (FlatMemoryManager.summarize_session). *)
(*                                                                         *)
(* A text is a sequence of string tokens; the token "\n" is a line break   *)
(* and " " is white space.  A fixed message of the code is one token.      *)
(***************************************************************************)
EXTENDS Integers, Sequences, FiniteSets, TLC

\* ------------------------------------------------------------------ constants
MAX_HISTORY_SIZE == 50
CONTEXT_TURNS == 20
MEMORY_CONTEXT_ITEMS == 20
SUMMARY_PERIOD == 10

\* ------------------------------------------------------------------ bounds
\* SpecSum: operations on a manager go on while its list and its record each
\* hold fewer facts than this.
MaxSumFacts == 4
\* SpecDemo: the demo takes input while its list holds fewer exchanges than this.
MaxDemoExchanges == 2
\* SpecText: requests.
MaxTextRequests == 2
\* SpecAdd: add_memory calls of the two threads together.
MaxAddCalls == 3
\* SpecConc: requests of the two handlers together.
MaxConcRequests == 2
\* Spec: requests (successful ones) over all conversation keys together.
MaxRequests == 2
\* SpecLong: successful requests per conversation key.
MaxLongRequests == 56
\* SpecMem: number of distinct numbered facts offered to add_memory, on
\* workspace1 and on the other workspace.
MaxFacts == 22
MaxOtherFacts == 2
\* SpecLoop: requests.
MaxLoopRequests == 1

\* ------------------------------------------------------------------ values
None == "<None>"
NL == "\n"
SP == " "

Min(a, b) == IF a < b THEN a ELSE b

\* s[-n:] of Python for n > 0: the last n elements (all of s when it is shorter).
LastN(s, n) == IF Len(s) <= n THEN s ELSE SubSeq(s, Len(s) - n + 1, Len(s))

\* s[:n] of Python: the first n elements.
FirstN(s, n) == IF Len(s) <= n THEN s ELSE SubSeq(s, 1, n)

\* item in list
Contains(s, x) == \E i \in 1..Len(s) : s[i] = x

\* list.count(x)
Count(s, x) == Cardinality({i \in 1..Len(s) : s[i] = x})

NoDuplicates(s) == \A i, j \in 1..Len(s) : s[i] = s[j] => i = j

IsWhite(tok) == tok = SP \/ tok = NL

\* not text.strip()
IsBlank(text) == \A i \in 1..Len(text) : IsWhite(text[i])

\* "\n".join(items): the items with a line break token between them.
RECURSIVE JoinLines(_)
JoinLines(items) ==
    IF Len(items) = 0 THEN <<>>
    ELSE IF Len(items) = 1 THEN items[1]
    ELSE items[1] \o <<NL>> \o JoinLines(Tail(items))

\* text.split("\n"): always at least one (possibly empty) piece.
RECURSIVE SplitLinesFrom(_, _)
SplitLinesFrom(text, cur) ==
    IF Len(text) = 0 THEN <<cur>>
    ELSE IF Head(text) = NL THEN <<cur>> \o SplitLinesFrom(Tail(text), <<>>)
    ELSE SplitLinesFrom(Tail(text), Append(cur, Head(text)))

SplitLines(text) == SplitLinesFrom(text, <<>>)

\* ------------------------------------------------------------------ keys
\* A conversation key is "{pre}_channel_{chan}", or the bare string pre when
\* chan = None.  app is the app_id the caller passes with it.
ChannelKey(app, chan) == [pre |-> app, chan |-> chan, app |-> app]
PlainKey(name, app) == [pre |-> name, chan |-> None, app |-> app]

K_W1C1 == ChannelKey("workspace1", "C1")
K_W1C2 == ChannelKey("workspace1", "C2")
K_W2C1 == ChannelKey("workspace2", "C1")
K_DEF == ChannelKey("default", "C1")
K_USER == PlainKey("U9", "workspace1")

Keys == {K_W1C1, K_W1C2, K_W2C1, K_DEF, K_USER}

\* "_channel_" in user_id_or_channel
HasChannelPart(key) == key.chan # None

\* user_id_or_channel.startswith("workspace")
StartsWithWorkspace(key) == key.pre \in {"workspace1", "workspace2"}

\* SessionFile naming the file by the app_id alone.
SessionFile_ByApp(key) == <<key.app, None>>

\* The session file of a key: "{workspace_id}.json" for a workspace channel key,
\* "{key}.json" otherwise.  A file is named by <<pre, chan>>, chan = None for
\* the workspace-wide file.
SessionFile(key) ==
    IF StartsWithWorkspace(key) /\ HasChannelPart(key)
    THEN <<key.pre, None>>
    ELSE <<key.pre, key.chan>>

\* demo_bot.get_session_file("demo_user"): the one session file of the demo.
DemoFile == <<"demo_user", None>>

Files == {SessionFile(k) : k \in Keys} \cup {DemoFile}

\* The workspaces that have a FlatMemoryManager (SlackBotManager.__init__).
Workspaces == {"workspace1", "workspace2"}

\* workspace_id of a request: app_id, or the part before "_channel_".
WorkspaceOf(key) == IF HasChannelPart(key) THEN key.pre ELSE key.app

\* ------------------------------------------------------------------ records
AbsentRecord == [st |-> "absent", items |-> <<>>]
CorruptRecord == [st |-> "corrupt", items |-> <<>>]
OkRecord(items) == [st |-> "ok", items |-> items]

VARIABLES
    sessions,   \* session file -> durable History Record
    memfile,    \* workspace -> durable Memory Record
    memory,     \* workspace -> fact list of the running bot's FlatMemoryManager
    req,        \* handler -> the request it is handling and its position
    appended,   \* conversation key -> every turn successful requests appended
    lastAdd,    \* the latest add_memory call from outside a summarization
    nreq,       \* the number of requests started (Spec and SpecLoop bound it)
    lastRun,    \* the summarization run of the current request or job
    demo,       \* the demo's chat loop: its position and its chat_history
    adds        \* thread -> the add_memory call it is in and its position

vars == <<sessions, memfile, memory, req, appended, lastAdd, nreq, lastRun, demo,
          adds>>


\* ------------------------------------------------------------------ History Store
\* The characters a text can hold besides plain ASCII words: the quotation
\* mark, the backslash, the line break NL, and characters outside ASCII.
QUOTE == "\""
BACKSLASH == "\\"
HANGUL == "<U+C548>"
EMOJI == "<U+1F60A>"
NonAscii == {HANGUL, EMOJI}

\* json.dump with the default ensure_ascii: characters outside ASCII are
\* written as \u escapes.
EncodeChar_Ascii(c) ==
    IF c = QUOTE THEN <<BACKSLASH, QUOTE>>
    ELSE IF c = BACKSLASH THEN <<BACKSLASH, BACKSLASH>>
    ELSE IF c = NL THEN <<BACKSLASH, "n">>
    ELSE IF c \in NonAscii THEN <<BACKSLASH, "u", c>>
    ELSE <<c>>

\* What json.dump(..., ensure_ascii=False) writes for one character of a
\* string: an escape for the quotation mark, the backslash and the line
\* break, the character itself otherwise.
EncodeChar(c) ==
    IF c = QUOTE THEN <<BACKSLASH, QUOTE>>
    ELSE IF c = BACKSLASH THEN <<BACKSLASH, BACKSLASH>>
    ELSE IF c = NL THEN <<BACKSLASH, "n">>
    ELSE <<c>>

\* The characters written for a string.
RECURSIVE EncodeString(_)
EncodeString(text) ==
    IF Len(text) = 0 THEN <<>>
    ELSE EncodeChar(Head(text)) \o EncodeString(Tail(text))

\* The string json.load reads from the characters written for it.
RECURSIVE DecodeString(_)
DecodeString(enc) ==
    IF Len(enc) = 0 THEN <<>>
    ELSE IF Head(enc) # BACKSLASH THEN <<Head(enc)>> \o DecodeString(Tail(enc))
    ELSE IF Len(enc) = 1 THEN <<>>
    ELSE IF enc[2] = "n" THEN <<NL>> \o DecodeString(SubSeq(enc, 3, Len(enc)))
    ELSE IF enc[2] = "u" /\ Len(enc) >= 3
    THEN <<enc[3]>> \o DecodeString(SubSeq(enc, 4, Len(enc)))
    ELSE <<enc[2]>> \o DecodeString(SubSeq(enc, 3, Len(enc)))

\* json.dump of a list of turns: each turn with its content as written.
json_dump(turns) ==
    [i \in 1..Len(turns) |-> [turns[i] EXCEPT !.content = EncodeString(@)]]

\* json.load of a written list of turns.
json_load(items) ==
    [i \in 1..Len(items) |-> [items[i] EXCEPT !.content = DecodeString(@)]]

\* What opening and parsing a session file raises: nothing for a missing
\* file (it is not opened) and for a well-formed one.
ReadError(rec) == IF rec.st = "corrupt" THEN "JSONDecodeError" ELSE None

\* CatchesLoad for a handler of missing files only.
CatchesLoad_NotFound(exc) == exc = "FileNotFoundError"

\* except Exception around the read of the session file
CatchesLoad(exc) == TRUE

\* Whether load_chat_history raises to its caller.
LoadRaises(files, key) ==
    LET exc == ReadError(files[SessionFile(key)])
    IN exc # None /\ ~CatchesLoad(exc)

\* load_chat_history: the turns of the key's session file; [] when the file is
\* missing or cannot be read or parsed.
load_chat_history(files, key) ==
    LET rec == files[SessionFile(key)]
    IN IF rec.st = "ok" THEN json_load(rec.items) ELSE <<>>

\* TrimHistory without the cut.
TrimHistory_NoTrim(chat_history) == chat_history

\* TrimHistory keeping the oldest turns instead of the most recent.
TrimHistory_KeepOldest(chat_history) ==
    IF Len(chat_history) > MAX_HISTORY_SIZE * 2
    THEN FirstN(chat_history, MAX_HISTORY_SIZE * 2)
    ELSE chat_history

\* TrimHistory cutting to an odd number of turns.
TrimHistory_OddCap(chat_history) ==
    IF Len(chat_history) > MAX_HISTORY_SIZE * 2
    THEN LastN(chat_history, MAX_HISTORY_SIZE * 2 - 1)
    ELSE chat_history

\* The list save_chat_history writes: at most the last 2 * MAX_HISTORY_SIZE turns.
TrimHistory(chat_history) ==
    IF Len(chat_history) > MAX_HISTORY_SIZE * 2
    THEN LastN(chat_history, MAX_HISTORY_SIZE * 2)
    ELSE chat_history

\* save_chat_history leaving the write for later.
save_chat_history_Deferred(files, key, chat_history) == files

\* save_chat_history: rewrites the whole session file of the key.
save_chat_history(files, key, chat_history) ==
    [files EXCEPT ![SessionFile(key)] = OkRecord(json_dump(TrimHistory(chat_history)))]

\* ------------------------------------------------------------------ Memory Store
\* FlatMemoryManager._load_memory, as used by __init__.
LoadMemory(rec) == IF rec.st = "ok" THEN rec.items ELSE <<>>

\* AppendMemoryItem putting a new item first.
AppendMemoryItem_Front(mem, rec, item) ==
    IF rec.st = "ok" /\ Contains(rec.items, item) THEN [mem |-> mem, rec |-> rec]
    ELSE IF rec.st = "corrupt" THEN [mem |-> mem, rec |-> rec]
    ELSE LET m2 == IF Contains(mem, item) THEN mem ELSE <<item>> \o mem
         IN IF rec.st = "absent" THEN [mem |-> m2, rec |-> rec]
            ELSE [mem |-> m2, rec |-> OkRecord(<<item>> \o rec.items)]

\* FlatMemoryManager._append_memory_item (add_memory) on the in-process list mem
\* and the durable record rec; gives the pair after the call.
\*   - the record is read first: an item already in it ends the call; a record
\*     that does not parse raises, which the outer handler logs;
\*   - the in-process list gets the item unless it has it;
\*   - the record is reopened "r+": a missing file raises (logged), an existing
\*     one gets the item appended.
AppendMemoryItem(mem, rec, item) ==
    IF rec.st = "ok" /\ Contains(rec.items, item) THEN [mem |-> mem, rec |-> rec]
    ELSE IF rec.st = "corrupt" THEN [mem |-> mem, rec |-> rec]
    ELSE LET m2 == IF Contains(mem, item) THEN mem ELSE Append(mem, item)
         IN IF rec.st = "absent" THEN [mem |-> m2, rec |-> rec]
            ELSE [mem |-> m2, rec |-> OkRecord(Append(rec.items, item))]

\* add_memory for each item of a list, in order.
RECURSIVE AddAll(_, _, _)
AddAll(mem, rec, items) ==
    IF Len(items) = 0 THEN [mem |-> mem, rec |-> rec]
    ELSE LET r == AppendMemoryItem(mem, rec, Head(items))
         IN AddAll(r.mem, r.rec, Tail(items))

\* get_context_for_user taking the latest 20 items.
get_context_for_user_Latest(items) == JoinLines(LastN(items, MEMORY_CONTEXT_ITEMS))

\* get_context_for_user without the cut at 20 items.
get_context_for_user_All(items) == JoinLines(items)

\* get_context_for_user: the first 20 items, one per line.  The user_id
\* argument is not used by the code.
get_context_for_user(items) ==
    JoinLines(IF Len(items) > MEMORY_CONTEXT_ITEMS
              THEN FirstN(items, MEMORY_CONTEXT_ITEMS)
              ELSE items)

\* ------------------------------------------------------------------ Context Assembler
\* entry.get("user_name") is set and truthy
HasUserName(entry) == "user_name" \in DOMAIN entry /\ entry.user_name # None

\* f"{name}: {content}"
NamePrefixed(name, content) == <<name, ": ">> \o content

\* FormatEntry without the test of is_channel.
FormatEntry_IgnoreChannel(entry, is_channel) ==
    [role |-> IF entry.role = "user" THEN "user" ELSE "model",
     parts |-> IF HasUserName(entry) /\ entry.role = "user"
               THEN NamePrefixed(entry.user_name, entry.content)
               ELSE entry.content]

\* One entry of formatted_history for a stored turn.
FormatEntry(entry, is_channel) ==
    [role |-> IF entry.role = "user" THEN "user" ELSE "model",
     parts |-> IF is_channel /\ HasUserName(entry) /\ entry.role = "user"
               THEN NamePrefixed(entry.user_name, entry.content)
               ELSE entry.content]

MEMORY_INTRO == "I have access to the following important information that I should remember:"

\* The synthetic model turn that carries the memory context.
MemoryEntry(memory_context) ==
    [role |-> "model", parts |-> <<MEMORY_INTRO, NL, NL>> \o memory_context]

\* MemoryContext falling back to the manager of workspace1.
MemoryContext_Fallback(mems, workspace_id) ==
    IF workspace_id \in DOMAIN mems THEN get_context_for_user(mems[workspace_id])
    ELSE get_context_for_user(mems["workspace1"])

\* memory_context of a request: get_context_for_user of the workspace's manager;
\* "" when the lookup raises (no manager for that workspace).
MemoryContext(mems, workspace_id) ==
    IF workspace_id \in DOMAIN mems THEN get_context_for_user(mems[workspace_id])
    ELSE <<>>

\* FormatHistory without the test for a blank memory context.
FormatHistory_AlwaysMemory(chat_history, memory_context, is_channel) ==
    LET recent == LastN(chat_history, CONTEXT_TURNS)
    IN <<MemoryEntry(memory_context)>>
       \o [i \in 1..Len(recent) |-> FormatEntry(recent[i], is_channel)]

\* FormatHistory taking the oldest 20 stored turns.
FormatHistory_Oldest(chat_history, memory_context, is_channel) ==
    LET recent == FirstN(chat_history, Min(CONTEXT_TURNS, Len(chat_history)))
    IN (IF IsBlank(memory_context) THEN <<>> ELSE <<MemoryEntry(memory_context)>>)
       \o [i \in 1..Len(recent) |-> FormatEntry(recent[i], is_channel)]

\* formatted_history: the memory entry when the context is not blank, then the
\* last 20 stored turns.
FormatHistory(chat_history, memory_context, is_channel) ==
    LET recent == LastN(chat_history, CONTEXT_TURNS)
    IN (IF IsBlank(memory_context) THEN <<>> ELSE <<MemoryEntry(memory_context)>>)
       \o [i \in 1..Len(recent) |-> FormatEntry(recent[i], is_channel)]

\* current_query: the query, with the sender's name in a channel request.
CurrentQuery(query, is_channel, user_name) ==
    IF is_channel /\ user_name # None THEN NamePrefixed(user_name, query) ELSE query

\* UserTurn storing the query as it was sent to the model, name and all.
UserTurn_Prefixed(key, query, is_channel, user_id, user_name, timestamp) ==
    IF is_channel /\ user_id # None
    THEN [role |-> "user", content |-> CurrentQuery(query, is_channel, user_name),
          timestamp |-> timestamp, user_id |-> user_id,
          user_name |-> IF user_name # None THEN user_name ELSE "Unknown User",
          channel_id |-> key.chan]
    ELSE [role |-> "user", content |-> CurrentQuery(query, is_channel, user_name),
          timestamp |-> timestamp]

\* The user turn appended to the history.
UserTurn(key, query, is_channel, user_id, user_name, timestamp) ==
    IF is_channel /\ user_id # None
    THEN [role |-> "user", content |-> query, timestamp |-> timestamp,
          user_id |-> user_id,
          user_name |-> IF user_name # None THEN user_name ELSE "Unknown User",
          channel_id |-> key.chan]
    ELSE [role |-> "user", content |-> query, timestamp |-> timestamp]

\* The bot turn appended to the history.
BotTurn(key, response_text, is_channel, timestamp) ==
    IF is_channel /\ HasChannelPart(key)
    THEN [role |-> "bot", content |-> response_text, timestamp |-> timestamp,
          channel_id |-> key.chan]
    ELSE [role |-> "bot", content |-> response_text, timestamp |-> timestamp]


\* ------------------------------------------------------------------ model responses
\* A response of the model API, as the code probes it:
\*   acc    what reading response.text does: "text" gives .text, anything else
\*          is the class of the exception it raises;
\*   shape  how far candidates[0].content.parts exists: "nocand" (no candidates),
\*          "nocontent" (no content), "nopartsattr" (content without parts),
\*          "parts";
\*   parts  the parts; each has a text (<<>> when it has none) and a
\*          function_call: absent, present but None, or a call with name and args.
NoArgs == [kind |-> "na", q |-> <<>>]
NoCall == [has |-> "absent", name |-> None, args |-> NoArgs]
NoneCall == [has |-> "none", name |-> None, args |-> NoArgs]
Call(name, args) == [has |-> "call", name |-> name, args |-> args]
Part(text, fc) == [text |-> text, fc |-> fc]
Response(acc, text, shape, parts) ==
    [acc |-> acc, text |-> text, shape |-> shape, parts |-> parts]

\* The fixed replies of the code.
MSG_NO_RESPONSE == <<"I couldn't generate a response. Please try again.">>
MSG_NO_SEARCH == <<"I need to search for more information to answer your question accurately, but I'm currently unable to perform web searches.">>
MSG_PROCESS_ERROR == <<"I encountered an error while processing your request. Please try again.">>
MSG_FOUND_UNPROCESSED == <<"I found some information, but couldn't process it properly.">>

\* f"I tried to search for information about '{original_query}', but encountered an error. {result_text}"
SearchErrorText(original_query, result_text) ==
    <<"I tried to search for information about '">> \o original_query
    \o <<"', but encountered an error. ">> \o result_text

\* f"Sorry, I encountered an error: {str(e)}"
ApologyText(exc) == <<"Sorry, I encountered an error: ", exc>>

\* What a step of the code gives: a returned text, an exception on its way
\* up, or the start of the search_web round.
Return(text) == [k |-> "return", text |-> text, exc |-> None, query |-> <<>>]
Throw(exc) == [k |-> "throw", text |-> <<>>, exc |-> exc, query |-> <<>>]
StartSearch(query, result_text) ==
    [k |-> "search", text |-> result_text, exc |-> None, query |-> query]

\* except (AttributeError, TypeError) around response.text and follow_up.text
CatchesText(exc) == exc \in {"AttributeError", "TypeError"}

\* except Exception around the search_web round
CatchesSearch(exc) == TRUE

\* except Exception around the inspection of the parts
CatchesProcess(exc) == TRUE

\* CatchesOuter for a handler of the API's errors only.
CatchesOuter_ApiOnly(exc) == exc = "ApiError"

\* except Exception around the body of generate_response_with_history
CatchesOuter(exc) == TRUE

\* ExtractQuery searching for the message whatever the call asks for.
ExtractQuery_Original(args, original_query) == original_query

\* The query of a search_web call: from string-encoded JSON (json.loads and
\* .get("query")) or from an argument object (getattr(args, "query")).  It is
\* original_query when parsing fails or there is no query, and also for the
\* mapping the library hands over ("map_query", a MapComposite with the key
\* "query"): a key of a mapping is not an attribute, so getattr gives its
\* default.
ExtractQuery(args, original_query) ==
    IF args.kind \in {"str_query", "obj_query"} THEN args.q ELSE original_query

\* The loop over content.parts up to the first search_web call.
RECURSIVE ProcessParts(_, _, _, _)
ProcessParts(parts, result_text, has_function_call, original_query) ==
    IF Len(parts) = 0
    THEN IF has_function_call THEN Return(MSG_NO_SEARCH)
         ELSE IF Len(result_text) > 0 THEN Return(result_text)
         ELSE Return(MSG_NO_RESPONSE)
    ELSE LET part == Head(parts)
             rt == result_text \o part.text
         IN IF part.fc.has = "absent"
            THEN ProcessParts(Tail(parts), rt, has_function_call, original_query)
            ELSE IF part.fc.has = "none" THEN Throw("AttributeError")
            ELSE IF part.fc.name = "search_web"
            THEN StartSearch(ExtractQuery(part.fc.args, original_query), rt)
            ELSE ProcessParts(Tail(parts), rt, TRUE, original_query)

\* InspectResponse starting a search round for a response that has a text.
InspectResponse_SearchFirst(response, original_query) ==
    IF response.acc = "text" THEN StartSearch(original_query, response.text)
    ELSE IF ~CatchesText(response.acc) THEN Throw(response.acc)
    ELSE Return(MSG_NO_RESPONSE)

\* InspectResponse going through the parts without the tests for missing
\* candidates, content and parts.
InspectResponse_Unguarded(response, original_query) ==
    IF response.acc = "text" THEN Return(response.text)
    ELSE IF ~CatchesText(response.acc) THEN Throw(response.acc)
    ELSE LET r == IF response.shape # "parts" THEN Throw("AttributeError")
                  ELSE ProcessParts(response.parts, <<>>, FALSE, original_query)
         IN IF r.k = "throw" /\ CatchesProcess(r.exc)
            THEN Return(MSG_PROCESS_ERROR)
            ELSE r

\* _process_function_calls up to its first further model call.
InspectResponse(response, original_query) ==
    IF response.acc = "text" THEN Return(response.text)
    ELSE IF ~CatchesText(response.acc) THEN Throw(response.acc)
    ELSE LET r == IF response.shape # "parts" \/ Len(response.parts) = 0
                  THEN Return(MSG_NO_RESPONSE)
                  ELSE ProcessParts(response.parts, <<>>, FALSE, original_query)
         IN IF r.k = "throw" /\ CatchesProcess(r.exc)
            THEN Return(MSG_PROCESS_ERROR)
            ELSE r

\* The check of the search response: a function call in some part; reading
\* .parts of a content that has none raises.
SearchPerformed(response) ==
    IF response.shape \in {"nocand", "nocontent"} THEN Return(<<"False">>)
    ELSE IF response.shape = "nopartsattr" THEN Throw("AttributeError")
    ELSE IF \E i \in 1..Len(response.parts) : response.parts[i].fc.has = "call"
         THEN Return(<<"True">>)
         ELSE Return(<<"False">>)

\* The texts of the parts, concatenated.
RECURSIVE PartsText(_)
PartsText(parts) ==
    IF Len(parts) = 0 THEN <<>> ELSE Head(parts).text \o PartsText(Tail(parts))

\* FollowUpText taking the text of the first part only.
FollowUpText_FirstPart(response) ==
    IF response.acc = "text" THEN Return(response.text)
    ELSE IF ~CatchesText(response.acc) THEN Throw(response.acc)
    ELSE IF response.shape = "nocand" THEN Throw("IndexError")
    ELSE IF response.shape \in {"nocontent", "nopartsattr"} THEN Throw("AttributeError")
    ELSE LET t == IF Len(response.parts) = 0 THEN <<>> ELSE Head(response.parts).text
         IN Return(IF Len(t) > 0 THEN t ELSE MSG_FOUND_UNPROCESSED)

\* The text taken from the follow-up response.
FollowUpText(response) ==
    IF response.acc = "text" THEN Return(response.text)
    ELSE IF ~CatchesText(response.acc) THEN Throw(response.acc)
    ELSE IF response.shape = "nocand" THEN Throw("IndexError")
    ELSE IF response.shape \in {"nocontent", "nopartsattr"} THEN Throw("AttributeError")
    ELSE LET t == PartsText(response.parts)
         IN Return(IF Len(t) > 0 THEN t ELSE MSG_FOUND_UNPROCESSED)

\* AfterSearch sending the reinforcement prompt in every round.
AfterSearch_Always(search_performed) == "reinforce"

\* Where the round goes after the search prompt: the reinforcement prompt
\* unless the search was performed.
AfterSearch(search_performed) == IF search_performed THEN "followup" ELSE "reinforce"

\* AfterReinforce for a round that checks the search again.
AfterReinforce_Retry == "search"

\* Where the round goes after the reinforcement prompt.
AfterReinforce == "followup"

\* What the search_web round returns when a step of it gave r.
SearchRoundResult(r, original_query, result_text) ==
    IF r.k = "throw" /\ CatchesSearch(r.exc)
    THEN Return(SearchErrorText(original_query, result_text))
    ELSE r

\* What generate_response_with_history does with an exception in its body.
OuterResult(r) ==
    IF r.k = "throw" /\ CatchesOuter(r.exc) THEN Return(ApologyText(r.exc)) ELSE r


\* ------------------------------------------------------------------ Summarization Job
\* str.lower() on the tokens the sentinel tests look at.
LowerToken(tok) ==
    IF tok \in {"NOTHING", "Nothing", "nothing"} THEN "nothing"
    ELSE IF tok \in {"NONE", "None", "none"} THEN "none"
    ELSE IF tok \in {"Nothing worth remembering", "nothing worth remembering"}
    THEN "nothing worth remembering"
    ELSE tok

LowerText(text) == [i \in 1..Len(text) |-> LowerToken(text[i])]

\* str.strip(): without the white space at both ends.
RECURSIVE StripLeft(_)
StripLeft(text) ==
    IF Len(text) > 0 /\ IsWhite(Head(text)) THEN StripLeft(Tail(text)) ELSE text

RECURSIVE StripRight(_)
StripRight(text) ==
    IF Len(text) > 0 /\ IsWhite(text[Len(text)])
    THEN StripRight(SubSeq(text, 1, Len(text) - 1))
    ELSE text

Strip(text) == StripRight(StripLeft(text))

\* [f(x) for x in lines if keep(x)] of extract_important_info
RECURSIVE MemoryLines(_)
MemoryLines(lines) ==
    IF Len(lines) = 0 THEN <<>>
    ELSE LET l == Head(lines)
         IN (IF ~IsBlank(l) /\ LowerText(l) # <<"nothing">> THEN <<Strip(l)>> ELSE <<>>)
            \o MemoryLines(Tail(lines))

\* extract_important_info taking the text of the error for the response when
\* the extraction request fails.
extract_important_info_ErrorText(ext) ==
    IF ~ext.ok THEN <<<<"Error extracting information">>>>
    ELSE IF Len(ext.text) = 0 THEN <<>>
    ELSE MemoryLines(SplitLines(Strip(ext.text)))

\* extract_important_info on the synthetic "History" message.  ext is what
\* the extraction request gives: ok = FALSE when it raises, else its text.
extract_important_info(ext) ==
    IF ~ext.ok \/ Len(ext.text) = 0 THEN <<>>
    ELSE LET text == Strip(ext.text)
         IN IF LowerText(text) = <<"nothing">>
               \/ \E i \in 1..Len(text) : LowerToken(text[i]) = "nothing worth remembering"
            THEN <<>>
            ELSE MemoryLines(SplitLines(text))

\* f"User {user_id}: {user_name}"
UserFact(user_id, user_name) == <<"User ", user_id, ": ", user_name>>

\* The user facts summarize_session adds: one per user_id, at its first user
\* turn that has an id and a name.
UserFacts(chat_history, seen) ==
    LET Named(i) == LET m == chat_history[i]
                    IN m.role = "user" /\ "user_id" \in DOMAIN m /\ m.user_id # None
                       /\ HasUserName(m)
        First(i) == /\ Named(i)
                    /\ chat_history[i].user_id \notin seen
                    /\ \A j \in 1..(i - 1) :
                          ~(Named(j) /\ chat_history[j].user_id = chat_history[i].user_id)
        at == SelectSeq([i \in 1..Len(chat_history) |-> i], First)
    IN [k \in 1..Len(at) |->
           UserFact(chat_history[at[k]].user_id, chat_history[at[k]].user_name)]

\* The facts summarize_session passes to add_memory, in order: the user facts,
\* then the extracted memories (none for an empty history).  The transcript
\* of the histories summarized here (ten turns or more) is never shorter than
\* the ten characters under which extract_important_info skips the request.
SummaryFacts(chat_history, ext) ==
    UserFacts(chat_history, {})
    \o (IF Len(chat_history) = 0 THEN <<>> ELSE extract_important_info(ext))

\* summarize_session on the manager's list and record.
summarize_session(mem, rec, chat_history, ext) ==
    AddAll(mem, rec, SummaryFacts(chat_history, ext))


\* [m.strip() for m in text.split("\n") if m.strip()] of extract_memories
RECURSIVE JobLines(_)
JobLines(lines) ==
    IF Len(lines) = 0 THEN <<>>
    ELSE (IF ~IsBlank(Head(lines)) THEN <<Strip(Head(lines))>> ELSE <<>>)
         \o JobLines(Tail(lines))

\* extract_memories of the standalone job: the memories it passes to
\* add_memory for what its extraction request gave.
extract_memories(ext) ==
    IF ~ext.ok \/ Len(ext.text) = 0 \/ LowerText(ext.text) = <<"none">> THEN <<>>
    ELSE JobLines(SplitLines(ext.text))

\* The user facts the standalone job adds: one add_memory for every user
\* turn that has an id and a name.
RECURSIVE JobUserFacts(_)
JobUserFacts(session_data) ==
    IF Len(session_data) = 0 THEN <<>>
    ELSE LET m == Head(session_data)
             named == m.role = "user" /\ "user_id" \in DOMAIN m /\ m.user_id # None
                      /\ HasUserName(m)
         IN (IF named THEN <<UserFact(m.user_id, m.user_name)>> ELSE <<>>)
            \o JobUserFacts(Tail(session_data))

\* load_session of the standalone job: [] when the file cannot be parsed.
load_session(rec) == IF rec.st = "ok" THEN json_load(rec.items) ELSE <<>>

\* The session file the standalone job reads for a workspace.
WorkspaceFile(ws) == <<ws, None>>

\* ------------------------------------------------------------------ requests
Handlers == {1, 2}

\* No add_memory call yet.
NoAdd == [ws |-> None, fact |-> <<>>, times |-> 0, changed |-> FALSE]

\* A summarization run: where it ran ("request": summarize_session called by
\* a request, "job": the standalone job), the workspace, the history it read,
\* what the extraction request gave, and the manager's list and the record
\* before the run.
Run(kind, ws, hist, ext, mem, rec) ==
    [kind |-> kind, ws |-> ws, hist |-> hist, ext |-> ext, mem |-> mem, rec |-> rec]

\* No summarization run in the current request.
NoRun == [kind |-> "none"]

\* The threads that call add_memory at the same time.
Adders == {1, 2}

\* A thread that is in no add_memory call.  cur is current_memory["memory"]
\* as the call read it from the file.
NoCallYet == [pc |-> "idle", ws |-> None, item |-> <<>>, cur |-> <<>>]

\* The demo is not running.  last is the latest command of its chat loop and
\* before the session files as they were when the command was given.
DemoOff == [pc |-> "off", chat_history |-> <<>>, last |-> "none", before |-> <<>>]

\* A request that has not started.
IdleRequest ==
    [pc |-> "idle", key |-> K_W1C1, query |-> <<>>, is_channel |-> FALSE,
     user_id |-> None, user_name |-> None,
     chat_history |-> <<>>, ctx |-> <<>>, current_query |-> <<>>,
     sq |-> <<>>, result_text |-> <<>>, calls |-> <<>>,
     reply |-> <<>>, status |-> "none", summarized |-> 0, outs |-> <<>>,
     loaded |-> <<>>]

\* calls are the model calls of the request, outs what each call of the
\* chat gave, in order; loaded is chat_history as load_chat_history gave it.
\* One call of the model: the prompt kind and the query it carries.
ModelCall(kind, q) == [kind |-> kind, q |-> q]

\* How a request goes on once _process_function_calls has given r: a returned
\* text is the reply and goes to the write-back; an exception is turned into
\* the apology by the handler of generate_response_with_history, and the
\* request returns without writing; one that is not caught leaves the function.
Conclude(rq, r) ==
    IF r.k = "return"
    THEN [rq EXCEPT !.reply = r.text, !.pc = "save"]
    ELSE LET o == OuterResult(r)
         IN IF o.k = "return"
            THEN [rq EXCEPT !.reply = o.text, !.pc = "done", !.status = "failed"]
            ELSE [rq EXCEPT !.pc = "done", !.status = "raised"]

\* generate_response_with_history is entered: the history is loaded.  The
\* load is outside the function's try: what it raises leaves the function.
Start(h, key, query, is_channel, user) ==
    /\ req[h].pc \in {"idle", "done"}
    /\ req' = [req EXCEPT ![h] =
                 IF LoadRaises(sessions, key)
                 THEN [IdleRequest EXCEPT
                         !.pc = "done", !.key = key, !.query = query,
                         !.is_channel = is_channel,
                         !.user_id = user.id, !.user_name = user.name,
                         !.status = "raised"]
                 ELSE [IdleRequest EXCEPT
                         !.pc = "assemble", !.key = key, !.query = query,
                         !.is_channel = is_channel,
                         !.user_id = user.id, !.user_name = user.name,
                         !.chat_history = load_chat_history(sessions, key),
                         !.loaded = load_chat_history(sessions, key),
                         !.status = "running"]]
    /\ lastRun' = NoRun
    /\ UNCHANGED <<sessions, memfile, memory, appended, lastAdd, demo, adds>>

\* A request that counts towards the bound on requests.
CountedStart(h, key, query, is_channel, user) ==
    /\ Start(h, key, query, is_channel, user)
    /\ nreq' = nreq + 1

\* The memory context is read and the context and the current query are built.
Assemble(h) ==
    /\ req[h].pc = "assemble"
    /\ LET rq == req[h]
           memory_context == MemoryContext(memory, WorkspaceOf(rq.key))
       IN req' = [req EXCEPT ![h] =
                    [rq EXCEPT
                       !.pc = "send",
                       !.ctx = FormatHistory(rq.chat_history, memory_context,
                                             rq.is_channel),
                       !.current_query = CurrentQuery(rq.query, rq.is_channel,
                                                      rq.user_name)]]
    /\ UNCHANGED <<sessions, memfile, memory, appended, lastAdd, nreq, lastRun, demo, adds>>

\* What a model call gives: an exception (exc # None) or a response.
Raises(exc) == [exc |-> exc, resp |-> Response("text", <<>>, "nocand", <<>>)]
Gives(resp) == [exc |-> None, resp |-> resp]

\* chat.send_message(current_query) and _process_function_calls up to its
\* first further model call.
Send(h, out) ==
    /\ req[h].pc = "send"
    /\ LET rq == [req[h] EXCEPT
                    !.calls = Append(@, ModelCall("query", req[h].current_query)),
                    !.outs = Append(@, out)]
           r == IF out.exc # None THEN Throw(out.exc)
                ELSE InspectResponse(out.resp, rq.current_query)
       IN req' = [req EXCEPT ![h] =
                    IF r.k = "search"
                    THEN [rq EXCEPT !.pc = "search", !.sq = r.query,
                                    !.result_text = r.text]
                    ELSE Conclude(rq, r)]
    /\ UNCHANGED <<sessions, memfile, memory, appended, lastAdd, nreq, lastRun, demo, adds>>

\* The search prompt is sent and the response checked for a function call.
SearchPrompt(h, out) ==
    /\ req[h].pc = "search"
    /\ LET rq == [req[h] EXCEPT !.calls = Append(@, ModelCall("search", req[h].sq)),
                                   !.outs = Append(@, out)]
           step == IF out.exc # None THEN Throw(out.exc) ELSE SearchPerformed(out.resp)
           r == SearchRoundResult(step, rq.current_query, rq.result_text)
       IN req' = [req EXCEPT ![h] =
                    IF step.k = "return"
                    THEN [rq EXCEPT !.pc = AfterSearch(step.text = <<"True">>)]
                    ELSE Conclude(rq, r)]
    /\ UNCHANGED <<sessions, memfile, memory, appended, lastAdd, nreq, lastRun, demo, adds>>

\* The reinforcement prompt is sent; its response is not looked at.
Reinforce(h, out) ==
    /\ req[h].pc = "reinforce"
    /\ LET rq == [req[h] EXCEPT !.calls = Append(@, ModelCall("reinforce", req[h].sq)),
                                   !.outs = Append(@, out)]
           r == SearchRoundResult(Throw(out.exc), rq.current_query, rq.result_text)
       IN req' = [req EXCEPT ![h] =
                    IF out.exc = None THEN [rq EXCEPT !.pc = AfterReinforce]
                    ELSE Conclude(rq, r)]
    /\ UNCHANGED <<sessions, memfile, memory, appended, lastAdd, nreq, lastRun, demo, adds>>

\* The follow-up prompt is sent and the reply taken from its response.
FollowUp(h, out) ==
    /\ req[h].pc = "followup"
    /\ LET rq == [req[h] EXCEPT !.calls = Append(@, ModelCall("followup", req[h].sq)),
                                   !.outs = Append(@, out)]
           step == IF out.exc # None THEN Throw(out.exc) ELSE FollowUpText(out.resp)
       IN req' = [req EXCEPT ![h] =
                    Conclude(rq, SearchRoundResult(step, rq.current_query,
                                                   rq.result_text))]
    /\ UNCHANGED <<sessions, memfile, memory, appended, lastAdd, nreq, lastRun, demo, adds>>

\* The timestamp of a request: the ordinal of the exchange on its key.
Timestamp(key) == Len(appended[key]) \div 2 + 1

\* AppendTurns reading the record again before the turns are appended.
AppendTurns_Reload(chat_history, files, key, turns) ==
    load_chat_history(files, key) \o turns

\* chat_history.append of the two turns: to the list loaded when the request
\* was entered, whatever the record holds by now.
AppendTurns(chat_history, files, key, turns) == chat_history \o turns

\* The two turns are appended to the loaded history and the history is saved.
\* Without a summarization the reply is returned.
Save(h) ==
    /\ req[h].pc = "save"
    /\ LET rq == req[h]
           ts == Timestamp(rq.key)
           user_message == UserTurn(rq.key, rq.query, rq.is_channel, rq.user_id,
                                    rq.user_name, ts)
           bot_message == BotTurn(rq.key, rq.reply, rq.is_channel, ts)
           chat_history == AppendTurns(rq.chat_history, sessions, rq.key,
                                       <<user_message, bot_message>>)
       IN /\ sessions' = save_chat_history(sessions, rq.key, chat_history)
          /\ appended' = [appended EXCEPT ![rq.key] = @ \o <<user_message, bot_message>>]
          /\ req' = [req EXCEPT ![h] =
                       [rq EXCEPT
                          !.chat_history = chat_history,
                          !.pc = IF Len(chat_history) % SUMMARY_PERIOD = 0
                                 THEN "summarize" ELSE "done",
                          !.status = IF Len(chat_history) % SUMMARY_PERIOD = 0
                                     THEN "running" ELSE "replied"]]
    /\ UNCHANGED <<memfile, memory, lastAdd, nreq, lastRun, demo, adds>>

\* summarize_session of the workspace's manager on the in-process history; the
\* lookup of a manager that does not exist raises, which is logged.  Then the
\* reply is returned.
Summarize(h, ext) ==
    /\ req[h].pc = "summarize"
    /\ LET rq == req[h]
           ws == WorkspaceOf(rq.key)
       IN IF ws \in DOMAIN memory
          THEN LET r == summarize_session(memory[ws], memfile[ws], rq.chat_history, ext)
               IN /\ memory' = [memory EXCEPT ![ws] = r.mem]
                  /\ memfile' = [memfile EXCEPT ![ws] = r.rec]
                  /\ lastAdd' = NoAdd
                  /\ lastRun' = Run("request", ws, rq.chat_history, ext,
                                    memory[ws], memfile[ws])
                  /\ req' = [req EXCEPT ![h] =
                               [rq EXCEPT !.pc = "done", !.status = "replied",
                                          !.summarized = @ + 1,
                                          !.calls = Append(@, ModelCall("extract", <<>>))]]
          ELSE /\ req' = [req EXCEPT ![h] = [rq EXCEPT !.pc = "done", !.status = "replied"]]
               /\ UNCHANGED <<memory, memfile, lastAdd, lastRun>>
    /\ UNCHANGED <<sessions, appended, nreq, demo, adds>>

\* add_memory(fact) on the manager of a workspace.  lastAdd keeps the call:
\* times is 2 when the call before it was the same, changed tells whether the
\* list or the record is another after it.
AddMemory(ws, fact) ==
    /\ LET r == AppendMemoryItem(memory[ws], memfile[ws], fact)
       IN /\ memory' = [memory EXCEPT ![ws] = r.mem]
          /\ memfile' = [memfile EXCEPT ![ws] = r.rec]
          /\ lastAdd' = [ws |-> ws, fact |-> fact,
                         times |-> IF lastAdd.ws = ws /\ lastAdd.fact = fact
                                   THEN 2 ELSE 1,
                         changed |-> r.mem # memory[ws] \/ r.rec # memfile[ws]]
    /\ lastRun' = NoRun
    /\ UNCHANGED <<sessions, req, appended, nreq, demo, adds>>

\* summarize_session(chat_history) of the running bot's manager of a
\* workspace, as a request calls it.
SummarizeSession(ws, chat_history, ext) ==
    /\ LET r == summarize_session(memory[ws], memfile[ws], chat_history, ext)
       IN /\ memory' = [memory EXCEPT ![ws] = r.mem]
          /\ memfile' = [memfile EXCEPT ![ws] = r.rec]
    /\ lastRun' = Run("request", ws, chat_history, ext, memory[ws], memfile[ws])
    /\ lastAdd' = NoAdd
    /\ UNCHANGED <<sessions, req, appended, nreq, demo, adds>>

\* summarize_session_file(workspace_id), the standalone job: a manager of its
\* own is built from the memory record, the workspace's session file is read,
\* and the user facts and then the extracted memories are added.  The job
\* ends at once when the session file is missing or holds no turn.
SummarizeSessionFile(ws, ext) ==
    /\ sessions[WorkspaceFile(ws)].st # "absent"
    /\ Len(load_session(sessions[WorkspaceFile(ws)])) > 0
    /\ LET session_data == load_session(sessions[WorkspaceFile(ws)])
           r == AddAll(LoadMemory(memfile[ws]), memfile[ws],
                       JobUserFacts(session_data) \o extract_memories(ext))
       IN memfile' = [memfile EXCEPT ![ws] = r.rec]
    /\ lastRun' = Run("job", ws, load_session(sessions[WorkspaceFile(ws)]), ext,
                      LoadMemory(memfile[ws]), memfile[ws])
    /\ lastAdd' = NoAdd
    /\ UNCHANGED <<sessions, memory, req, appended, nreq, demo, adds>>


\* ------------------------------------------------------------------ inputs
HELLO == <<"hello">>
TEA == <<"I", SP, "like", SP, "tea">>
ANSWER == <<"answer">>
FOUND == <<"found">>
KEYWORDS == <<"keywords">>

ALICE == [id |-> "U1", name |-> "Alice"]
NAMELESS == [id |-> "U2", name |-> None]
NOBODY == [id |-> None, name |-> None]
Users == {ALICE, NAMELESS, NOBODY}

FACT_A == <<"Alice likes tea">>
FACT_B == <<"Bob works at Acme">>

\* A response whose .text can be read.
Direct(text) == Response("text", text, "parts", <<Part(text, NoCall)>>)

\* A response whose .text raises exc, with these parts.
Structured(exc, parts) == Response(exc, <<>>, "parts", parts)

SearchCall(kind) == Part(<<>>, Call("search_web", [kind |-> kind, q |-> KEYWORDS]))
OtherCall == Part(<<>>, Call("get_weather", NoArgs))

\* The outcomes of the first model call when the model answers or fails.
PlainOutcomes == {Gives(Direct(ANSWER)), Raises("ApiError")}

\* The outcomes of the first model call, all shapes the code tells apart.
FirstOutcomes ==
    PlainOutcomes
    \cup {Gives(Response("ValueError", <<>>, "parts", <<SearchCall("obj_query")>>)),
          Gives(Response("AttributeError", <<>>, "nocand", <<>>)),
          Gives(Response("AttributeError", <<>>, "nocontent", <<>>)),
          Gives(Response("AttributeError", <<>>, "nopartsattr", <<>>)),
          Gives(Structured("AttributeError", <<>>)),
          Gives(Structured("TypeError", <<Part(ANSWER, NoCall)>>)),
          Gives(Structured("AttributeError", <<Part(<<>>, NoneCall)>>)),
          Gives(Structured("AttributeError", <<OtherCall>>)),
          Gives(Structured("ValueError", <<OtherCall>>)),
          Gives(Structured("TypeError", <<Part(ANSWER, NoCall), OtherCall>>)),
          Gives(Structured("AttributeError", <<OtherCall, SearchCall("str_query")>>)),
          Gives(Structured("AttributeError", <<Part(ANSWER, NoCall), SearchCall("str_bad")>>))}
    \cup {Gives(Structured("AttributeError", <<SearchCall(kind)>>)) :
            kind \in {"str_query", "str_noquery", "str_bad", "obj_query", "obj_noquery",
                      "map_query"}}

\* The outcomes of the search prompt.
SearchOutcomes ==
    {Raises("ApiError"),
     Gives(Structured("AttributeError", <<SearchCall("obj_query")>>)),
     Gives(Direct(FOUND)),
     Gives(Structured("AttributeError", <<Part(<<>>, NoneCall)>>)),
     Gives(Response("AttributeError", <<>>, "nocand", <<>>)),
     Gives(Response("AttributeError", <<>>, "nopartsattr", <<>>))}

\* The outcomes of the reinforcement prompt.
ReinforceOutcomes == {Raises("ApiError"), Gives(Direct(FOUND))}

\* The outcomes of the follow-up prompt.
FollowUpOutcomes ==
    {Raises("ApiError"),
     Gives(Direct(FOUND)),
     Gives(Structured("AttributeError", <<Part(FOUND, NoCall), Part(ANSWER, NoCall)>>)),
     Gives(Structured("AttributeError", <<SearchCall("obj_query")>>)),
     Gives(Response("AttributeError", <<>>, "nocand", <<>>)),
     Gives(Response("ValueError", <<>>, "parts", <<>>))}

\* What the extraction request of a summarization gives.
ExtractFails == [ok |-> FALSE, text |-> <<>>]
Extracted(text) == [ok |-> TRUE, text |-> text]
PlainExtracts == {ExtractFails, Extracted(FACT_A)}

\* ------------------------------------------------------------------ initial states
\* n earlier exchanges on a channel key, as requests of ALICE that the model
\* answered leave them.
PriorTurns(key, n) ==
    [i \in 1..(2 * n) |->
        IF i % 2 = 1
        THEN UserTurn(key, TEA, TRUE, ALICE.id, ALICE.name, (i + 1) \div 2)
        ELSE BotTurn(key, ANSWER, TRUE, i \div 2)]

NoSessions == [f \in Files |-> AbsentRecord]
NoMemfiles == [ws \in Workspaces |-> AbsentRecord]
NoPrior == [k \in Keys |-> <<>>]

\* What the bot finds on disk when it is constructed.
Scenario(ses, mf, prior) == [sessions |-> ses, memfile |-> mf, prior |-> prior]

\* Nothing on disk.
S_Fresh == Scenario(NoSessions, NoMemfiles, NoPrior)

\* A memory record of workspace1 with one fact; an empty one of workspace2.
S_Memory ==
    Scenario(NoSessions,
             [NoMemfiles EXCEPT !["workspace1"] = OkRecord(<<FACT_A>>),
                                !["workspace2"] = OkRecord(<<>>)],
             NoPrior)

\* Four earlier exchanges in workspace1, and an empty memory record.
S_Prior ==
    Scenario([NoSessions EXCEPT
                 ![SessionFile(K_W1C1)] = OkRecord(json_dump(PriorTurns(K_W1C1, 4)))],
             [NoMemfiles EXCEPT !["workspace1"] = OkRecord(<<>>)],
             [NoPrior EXCEPT ![K_W1C1] = PriorTurns(K_W1C1, 4)])

\* Records of workspace2 that do not parse.
S_Corrupt ==
    Scenario([NoSessions EXCEPT ![SessionFile(K_W2C1)] = CorruptRecord],
             [NoMemfiles EXCEPT !["workspace2"] = CorruptRecord],
             NoPrior)

\* SlackBotManager.__init__: each manager loads its record; no request yet.
InitWith(scn) ==
    /\ sessions = scn.sessions
    /\ memfile = scn.memfile
    /\ memory = [ws \in Workspaces |-> LoadMemory(scn.memfile[ws])]
    /\ req = [h \in Handlers |-> IdleRequest]
    /\ appended = scn.prior
    /\ lastAdd = NoAdd
    /\ nreq = 0
    /\ lastRun = NoRun
    /\ demo = DemoOff
    /\ adds = [t \in Adders |-> NoCallYet]

\* ------------------------------------------------------------------ Spec
\* Requests on every key, from every sender, one at a time; the model answers
\* with text or fails.
Init == \E scn \in {S_Fresh, S_Memory, S_Prior, S_Corrupt} : InitWith(scn)

Next ==
    \/ \E key \in Keys, query \in {HELLO}, is_channel \in BOOLEAN, user \in Users :
          nreq < MaxRequests /\ CountedStart(1, key, query, is_channel, user)
    \/ Assemble(1)
    \/ \E out \in PlainOutcomes : Send(1, out)
    \/ Save(1)
    \/ \E ext \in PlainExtracts : Summarize(1, ext)

Spec == Init /\ [][Next]_vars


\* ------------------------------------------------------------------ SpecLoop
\* Requests of one sender on one channel key, one at a time; the model gives
\* every shape of response at every call.  A handler runs on once started.
InitLoop == \E scn \in {S_Fresh, S_Prior} : InitWith(scn)

StepLoop ==
    \/ Assemble(1)
    \/ \E out \in FirstOutcomes : Send(1, out)
    \/ \E out \in SearchOutcomes : SearchPrompt(1, out)
    \/ \E out \in ReinforceOutcomes : Reinforce(1, out)
    \/ \E out \in FollowUpOutcomes : FollowUp(1, out)
    \/ Save(1)
    \/ \E ext \in PlainExtracts : Summarize(1, ext)

NextLoop ==
    \/ \E query \in {HELLO, TEA} :
          nreq < MaxLoopRequests /\ CountedStart(1, K_W1C1, query, TRUE, ALICE)
    \/ StepLoop

SpecLoop == InitLoop /\ [][NextLoop]_vars /\ WF_vars(StepLoop)

\* ------------------------------------------------------------------ SpecLong
\* Long runs: requests of one sender on two keys with separate records, one at
\* a time, until the records are past their cap.
LongKeys == {K_W1C1, K_W2C1}

\* The text of the next request on a key: the two texts in turn, so that
\* exchanges next to each other differ.
LongQuery(key) == IF (Len(appended[key]) \div 2) % 2 = 0 THEN HELLO ELSE TEA

InitLong == InitWith(S_Fresh)

NextLong ==
    \/ \E key \in LongKeys :
          /\ Len(appended[key]) < 2 * MaxLongRequests
          /\ Start(1, key, LongQuery(key), TRUE, ALICE)
          /\ UNCHANGED nreq
    \/ Assemble(1)
    \/ \E out \in PlainOutcomes : Send(1, out)
    \/ Save(1)
    \/ Summarize(1, Extracted(FACT_A))

SpecLong == InitLong /\ [][NextLong]_vars

\* ------------------------------------------------------------------ SpecLive
\* One key that keeps receiving requests, each answered by the model, one at
\* a time, from an empty record until the record is past its cap.
NextLive ==
    \/ /\ Len(appended[K_W1C1]) < 2 * MaxLongRequests
       /\ Start(1, K_W1C1, LongQuery(K_W1C1), TRUE, ALICE)
       /\ UNCHANGED nreq
    \/ Assemble(1)
    \/ Send(1, Gives(Direct(ANSWER)))
    \/ Save(1)
    \/ Summarize(1, Extracted(FACT_A))

SpecLive == InitLong /\ [][NextLive]_vars /\ WF_vars(NextLive)

\* ------------------------------------------------------------------ SpecConc
\* Two handlers at once on one key: their steps interleave in every way.
InitConc == \E scn \in {S_Fresh, S_Prior} : InitWith(scn)

NextConc ==
    \E h \in Handlers :
        \/ \E query \in {HELLO, TEA} :
              nreq < MaxConcRequests /\ CountedStart(h, K_W1C1, query, TRUE, ALICE)
        \/ Assemble(h)
        \/ \E out \in PlainOutcomes : Send(h, out)
        \/ Save(h)
        \/ \E ext \in PlainExtracts : Summarize(h, ext)

SpecConc == InitConc /\ [][NextConc]_vars

\* ------------------------------------------------------------------ SpecAdd
\* add_memory calls of two threads on the manager of one workspace, step by
\* step: _append_memory_item holds no lock, so the threads can change places
\* between any two of its reads and writes.

\* add_memory(item) is called; the calls are counted.
AddBegin(t, ws, item) ==
    /\ adds[t].pc = "idle"
    /\ adds' = [adds EXCEPT ![t] = [pc |-> "check", ws |-> ws, item |-> item,
                                     cur |-> <<>>]]
    /\ nreq' = nreq + 1
    /\ UNCHANGED <<sessions, memfile, memory, req, appended, lastAdd, lastRun, demo>>

\* The first read of the file: the call ends when the file holds the item
\* and when it does not parse (the exception is logged).
AddCheckFile(t) ==
    /\ adds[t].pc = "check"
    /\ LET rec == memfile[adds[t].ws]
       IN adds' = [adds EXCEPT ![t].pc =
                     IF rec.st = "corrupt" THEN "idle"
                     ELSE IF rec.st = "ok" /\ Contains(rec.items, adds[t].item)
                     THEN "idle"
                     ELSE "checkmem"]
    /\ UNCHANGED <<sessions, memfile, memory, req, appended, lastAdd, nreq, lastRun, demo>>

\* if memory_item not in self.memory["memory"]
AddCheckMem(t) ==
    /\ adds[t].pc = "checkmem"
    /\ adds' = [adds EXCEPT ![t].pc =
                  IF Contains(memory[adds[t].ws], adds[t].item) THEN "open"
                  ELSE "append"]
    /\ UNCHANGED <<sessions, memfile, memory, req, appended, lastAdd, nreq, lastRun, demo>>

\* self.memory["memory"].append(memory_item)
AddAppendMem(t) ==
    /\ adds[t].pc = "append"
    /\ memory' = [memory EXCEPT ![adds[t].ws] = Append(@, adds[t].item)]
    /\ adds' = [adds EXCEPT ![t].pc = "open"]
    /\ UNCHANGED <<sessions, memfile, req, appended, lastAdd, nreq, lastRun, demo>>

\* The file is opened "r+" and read: a missing file ends the call (the
\* exception is logged), a file that does not parse is to be rewritten from
\* the list, and a file that holds the item ends the call.
AddOpen(t) ==
    /\ adds[t].pc = "open"
    /\ LET rec == memfile[adds[t].ws]
       IN adds' = [adds EXCEPT ![t] =
                     IF rec.st = "absent" THEN [@ EXCEPT !.pc = "idle"]
                     ELSE IF rec.st = "corrupt" THEN [@ EXCEPT !.pc = "retruncate"]
                     ELSE IF Contains(rec.items, adds[t].item)
                     THEN [@ EXCEPT !.pc = "idle"]
                     ELSE [@ EXCEPT !.pc = "truncate",
                                    !.cur = Append(rec.items, adds[t].item)]]
    /\ UNCHANGED <<sessions, memfile, memory, req, appended, lastAdd, nreq, lastRun, demo>>

\* f.seek(0); f.truncate(): until the dump the file does not parse.
AddTruncate(t) ==
    /\ adds[t].pc \in {"truncate", "retruncate"}
    /\ memfile' = [memfile EXCEPT ![adds[t].ws] = CorruptRecord]
    /\ adds' = [adds EXCEPT ![t].pc = IF @ = "truncate" THEN "dump" ELSE "redump"]
    /\ UNCHANGED <<sessions, memory, req, appended, lastAdd, nreq, lastRun, demo>>

\* json.dump(current_memory, f): what the call read, with the item.
AddDump(t) ==
    /\ adds[t].pc = "dump"
    /\ memfile' = [memfile EXCEPT ![adds[t].ws] = OkRecord(adds[t].cur)]
    /\ adds' = [adds EXCEPT ![t].pc = "idle"]
    /\ UNCHANGED <<sessions, memory, req, appended, lastAdd, nreq, lastRun, demo>>

\* json.dump(self.memory, f) of the JSONDecodeError branch: the list.
AddRedump(t) ==
    /\ adds[t].pc = "redump"
    /\ memfile' = [memfile EXCEPT ![adds[t].ws] = OkRecord(memory[adds[t].ws])]
    /\ adds' = [adds EXCEPT ![t].pc = "idle"]
    /\ UNCHANGED <<sessions, memory, req, appended, lastAdd, nreq, lastRun, demo>>

\* The memory record of workspace1 is missing, empty or holds a fact.
InitAdd ==
    \E rec \in {AbsentRecord, OkRecord(<<>>), OkRecord(<<FACT_A>>)} :
        InitWith(Scenario(NoSessions, [NoMemfiles EXCEPT !["workspace1"] = rec],
                          NoPrior))

NextAdd ==
    \E t \in Adders :
        \/ \E item \in {FACT_A, FACT_B} :
              nreq < MaxAddCalls /\ AddBegin(t, "workspace1", item)
        \/ AddCheckFile(t)
        \/ AddCheckMem(t)
        \/ AddAppendMem(t)
        \/ AddOpen(t)
        \/ AddTruncate(t)
        \/ AddDump(t)
        \/ AddRedump(t)

SpecAdd == InitAdd /\ [][NextAdd]_vars

\* ------------------------------------------------------------------ SpecMem
\* add_memory calls on the managers, one at a time: the numbered facts in
\* order, each any number of times, and one more fact at any point.
Fact(i) == <<"fact", ToString(i)>>

\* The numbered facts a manager holds.
Numbered(ws) == Len(memory[ws]) - Count(memory[ws], FACT_A)

\* The numbered facts offered to a manager: MaxFacts to that of workspace1,
\* MaxOtherFacts to the other.
FactBound(ws) == IF ws = "workspace1" THEN MaxFacts ELSE MaxOtherFacts

\* The facts offered next: the first and the latest numbered fact again, the
\* next numbered fact, and FACT_A.
OfferedFacts(ws) ==
    {Fact(i) : i \in {1, Numbered(ws), Numbered(ws) + 1} \cap 1..FactBound(ws)}
    \cup {FACT_A}

InitMem == \E scn \in {S_Fresh, S_Memory, S_Corrupt} : InitWith(scn)

\* Once a manager holds twenty facts its summarize_session runs as well, on
\* a history of five exchanges, with and without an extracted fact, while
\* there is room for the two facts a run can add.
NextMem ==
    \/ \E ws \in Workspaces : \E fact \in OfferedFacts(ws) : AddMemory(ws, fact)
    \/ \E ws \in Workspaces, ext \in {ExtractFails, Extracted(FACT_B)} :
          /\ Len(memory[ws]) >= MEMORY_CONTEXT_ITEMS
          /\ Len(memory[ws]) + 2 <= MaxFacts + 1
          /\ SummarizeSession(ws, PriorTurns(K_W1C1, 5), ext)

SpecMem == InitMem /\ [][NextMem]_vars

\* ------------------------------------------------------------------ SpecSum
\* add_memory and summarization runs on the managers, one at a time: the
\* bot's summarize_session on two histories and the standalone job on the
\* session files, with every kind of extraction response.
BOB == [id |-> "U3", name |-> "Bob"]
FACT_C == <<"Bob", SP, "works", SP, "at", SP, "Acme">>

\* Five exchanges on a channel key with these senders in turn.
MixedUsers == <<ALICE, NAMELESS, NOBODY, BOB, ALICE>>

MixedTurns(key) ==
    [i \in 1..10 |->
        IF i % 2 = 1
        THEN LET u == MixedUsers[(i + 1) \div 2]
             IN UserTurn(key, TEA, TRUE, u.id, u.name, (i + 1) \div 2)
        ELSE BotTurn(key, ANSWER, TRUE, i \div 2)]

SumHistories == {PriorTurns(K_W1C1, 5), MixedTurns(K_W1C1)}

\* Extraction responses: a failure, one line, lines with white space and a
\* blank line between them, and the sentinels alone, with a line break after
\* them, and after another line.
SumExtracts ==
    {ExtractFails,
     Extracted(FACT_A),
     Extracted(<<SP>> \o FACT_C \o <<SP, NL, SP, NL>> \o FACT_A),
     Extracted(<<"NOTHING">>),
     Extracted(<<"none">>),
     Extracted(<<"None", NL>>),
     Extracted(FACT_A \o <<NL, SP, "NOTHING">>)}

\* The facts a manager holds: in its list or in its record, whichever has more.
Held(ws) ==
    IF Len(memory[ws]) > Len(memfile[ws].items)
    THEN Len(memory[ws]) ELSE Len(memfile[ws].items)

\* The session files of both workspaces hold five exchanges.
SumSessions ==
    [NoSessions EXCEPT
       ![WorkspaceFile("workspace1")] = OkRecord(json_dump(MixedTurns(K_W1C1))),
       ![WorkspaceFile("workspace2")] = OkRecord(json_dump(PriorTurns(K_W2C1, 5)))]

SumPrior ==
    [NoPrior EXCEPT ![K_W1C1] = MixedTurns(K_W1C1), ![K_W2C1] = PriorTurns(K_W2C1, 5)]

\* The memory record of workspace1 is missing, unparsable, empty or holds a
\* fact; that of workspace2 is empty.
InitSum ==
    \E rec \in {AbsentRecord, CorruptRecord, OkRecord(<<>>), OkRecord(<<FACT_A>>)} :
        InitWith(Scenario(SumSessions,
                          [NoMemfiles EXCEPT !["workspace1"] = rec,
                                             !["workspace2"] = OkRecord(<<>>)],
                          SumPrior))

\* The managers the operations of SpecSum act on.
SumWorkspaces == {"workspace1"}

NextSum ==
    \/ \E ws \in SumWorkspaces, fact \in {FACT_A, FACT_B} :
          Held(ws) < MaxSumFacts /\ AddMemory(ws, fact)
    \/ \E ws \in SumWorkspaces, chat_history \in SumHistories, ext \in SumExtracts :
          Held(ws) < MaxSumFacts /\ SummarizeSession(ws, chat_history, ext)
    \/ \E ws \in SumWorkspaces, ext \in SumExtracts :
          Held(ws) < MaxSumFacts /\ SummarizeSessionFile(ws, ext)

SpecSum == InitSum /\ [][NextSum]_vars


\* ================================================================== claims
\* A request of handler 1 whose context is built and whose loaded history is
\* still as loaded.
Assembled == req[1].pc \in {"send", "search", "reinforce", "followup", "save"}

\* A request of handler 1 has written its two turns back.
Saved == req[1].pc = "summarize" \/ (req[1].pc = "done" /\ req[1].status = "replied")

\* A successful request of handler 1 has returned its reply.
Replied == req[1].pc = "done" /\ req[1].status = "replied"

\* Only this key has appended to its session file.
Exclusive(key) ==
    \A k \in Keys \ {key} : SessionFile(k) = SessionFile(key) => appended[k] = <<>>

\* ------------------------------------------------------------------ C1
\* C1: every persisted History Record holds at most 2 * MAX_HISTORY_SIZE = 100
\* turns, and the record a request has just saved is the most recent 100 turns
\* of the list it handed to save_chat_history (the whole list up to 100).
C1_HistoryCapped ==
    /\ \A f \in Files : Len(sessions[f].items) <= 100
    /\ Saved =>
         LET given == req[1].chat_history
             kept == sessions[SessionFile(req[1].key)].items
             drop == IF Len(given) > 100 THEN Len(given) - 100 ELSE 0
         IN /\ Len(kept) = Len(given) - drop
            /\ \A i \in 1..Len(kept) : kept[i] = given[drop + i]

\* A request has saved a list of 102 turns and the record holds 100.
C1_Witness ==
    /\ Saved
    /\ Len(req[1].chat_history) = 102
    /\ Len(sessions[SessionFile(req[1].key)].items) = 100

\* ------------------------------------------------------------------ C2
\* C2: for a key that alone writes its record, load_chat_history returns the
\* last min(n, 100) of the n turns appended so far, in order and unchanged.
C2_LoadIsSuffix ==
    \A key \in Keys :
        Exclusive(key) =>
            LET n == Len(appended[key])
                m == Min(n, 100)
                loaded == load_chat_history(sessions, key)
            IN /\ Len(loaded) = m
               /\ \A i \in 1..m : loaded[i] = appended[key][n - m + i]

\* More than 100 turns have been appended to a key and the load gives 100.
C2_Witness ==
    \E key \in Keys :
        /\ Exclusive(key)
        /\ Len(appended[key]) = 104
        /\ Len(load_chat_history(sessions, key)) = 100

\* ------------------------------------------------------------------ SpecText
\* Requests on one channel key whose queries, answers and sender names hold
\* the characters json.dump escapes and characters outside ASCII.
HANA == [id |-> "U4", name |-> HANGUL]

TextQueries ==
    {<<HANGUL, SP, HANGUL, "!">>,
     <<QUOTE, "hello", QUOTE, NL, BACKSLASH, "n">>,
     <<EMOJI, BACKSLASH, "u", HANGUL>>}

TextAnswers == {<<HANGUL, SP, EMOJI>>, <<BACKSLASH, QUOTE, NL, HANGUL>>}

TextOutcomes == {Gives(Direct(text)) : text \in TextAnswers}

\* The exchange test_korean.py writes.
KoreanTurns(key) ==
    <<UserTurn(key, <<HANGUL, "!", SP, HANGUL, ".">>, FALSE, None, None, 1),
      BotTurn(key, <<HANGUL, ":", SP, HANGUL, "!", SP, EMOJI>>, FALSE, 1)>>

\* One exchange in Korean is stored for the key.
S_Korean ==
    Scenario([NoSessions EXCEPT
                 ![SessionFile(K_W1C1)] = OkRecord(json_dump(KoreanTurns(K_W1C1)))],
             NoMemfiles,
             [NoPrior EXCEPT ![K_W1C1] = KoreanTurns(K_W1C1)])

InitText == \E scn \in {S_Fresh, S_Korean} : InitWith(scn)

NextText ==
    \/ \E query \in TextQueries, user \in {ALICE, HANA} :
          nreq < MaxTextRequests /\ CountedStart(1, K_W1C1, query, TRUE, user)
    \/ Assemble(1)
    \/ \E out \in TextOutcomes : Send(1, out)
    \/ Save(1)

SpecText == InitText /\ [][NextText]_vars

\* ------------------------------------------------------------------ SpecDemo
\* demo_bot.py: the chat loop of the demo on its one session file.

\* demo_bot.load_chat_history: the turns of the file; [] when it is missing or
\* cannot be read or parsed.
demo_load_chat_history(files) ==
    IF files[DemoFile].st = "ok" THEN json_load(files[DemoFile].items) ELSE <<>>

\* demo_bot.save_chat_history: rewrites the whole file with the list given.
demo_save_chat_history(files, chat_history) ==
    [files EXCEPT ![DemoFile] = OkRecord(json_dump(chat_history))]

\* ClearHistory removing the session file.
ClearHistory_Remove(files) == [files EXCEPT ![DemoFile] = AbsentRecord]

\* What 'clear' does to the session files: the empty list is saved.
ClearHistory(files) == demo_save_chat_history(files, <<>>)

\* The two turns the demo appends for an exchange.
DemoExchange(user_input, bot_response, timestamp) ==
    <<[role |-> "user", content |-> user_input, timestamp |-> timestamp],
      [role |-> "bot", content |-> bot_response, timestamp |-> timestamp]>>

\* chat_with_gemini is entered: the history is loaded, and the loop begins
\* if the connection test succeeds.
DemoStart(connected) ==
    /\ demo.pc = "off"
    /\ demo' = IF connected
               THEN [pc |-> "chat",
                     chat_history |-> demo_load_chat_history(sessions),
                     last |-> "start", before |-> sessions]
               ELSE [DemoOff EXCEPT !.last = "start", !.before = sessions]
    /\ UNCHANGED <<sessions, memfile, memory, req, appended, lastAdd, nreq, lastRun, adds>>

\* The command 'clear'.
DemoClear ==
    /\ demo.pc = "chat"
    /\ sessions' = ClearHistory(sessions)
    /\ demo' = [demo EXCEPT !.chat_history = <<>>, !.last = "clear",
                            !.before = sessions]
    /\ UNCHANGED <<memfile, memory, req, appended, lastAdd, nreq, lastRun, adds>>

\* Any other input: the model is asked; its answer and the input are appended
\* and the list is saved, and a failure is printed and changes nothing.
DemoChat(user_input, out) ==
    /\ demo.pc = "chat"
    /\ IF out.exc # None
       THEN /\ demo' = [demo EXCEPT !.last = "chat", !.before = sessions]
            /\ UNCHANGED sessions
       ELSE LET chat_history ==
                    demo.chat_history
                       \o DemoExchange(user_input, out.resp.text,
                                       Len(demo.chat_history) \div 2 + 1)
            IN /\ demo' = [demo EXCEPT !.chat_history = chat_history,
                                       !.last = "chat", !.before = sessions]
               /\ sessions' = demo_save_chat_history(sessions, chat_history)
    /\ UNCHANGED <<memfile, memory, req, appended, lastAdd, nreq, lastRun, adds>>

\* 'exit', 'quit', 'bye', empty input or end of input.
DemoExit ==
    /\ demo.pc = "chat"
    /\ demo' = [DemoOff EXCEPT !.last = "exit", !.before = sessions]
    /\ UNCHANGED <<sessions, memfile, memory, req, appended, lastAdd, nreq, lastRun, adds>>

\* The demo's file is missing, unparsable or holds one exchange.
DemoSessions ==
    {NoSessions,
     [NoSessions EXCEPT ![DemoFile] = CorruptRecord],
     [NoSessions EXCEPT
        ![DemoFile] = OkRecord(json_dump(DemoExchange(TEA, ANSWER, 1)))]}

\* What the demo's model call gives: one of two answers, or a failure.
DemoOutcomes == {Gives(Direct(ANSWER)), Gives(Direct(FOUND)), Raises("ApiError")}

InitDemo == \E ses \in DemoSessions : InitWith(Scenario(ses, NoMemfiles, NoPrior))

NextDemo ==
    \/ \E connected \in BOOLEAN : DemoStart(connected)
    \/ DemoClear
    \/ \E user_input \in {HELLO, TEA}, out \in DemoOutcomes :
          Len(demo.chat_history) < 2 * MaxDemoExchanges /\ DemoChat(user_input, out)
    \/ DemoExit

SpecDemo == InitDemo /\ [][NextDemo]_vars

\* ------------------------------------------------------------------ C3
\* C3: get_memory holds no fact twice, and when add_memory(f) has been called
\* twice in a row the list holds f exactly once and the second call changed
\* neither the list nor the record.
C3_AddTwiceOnce ==
    /\ \A ws \in Workspaces : NoDuplicates(memory[ws])
    /\ lastAdd.times = 2 =>
          /\ Count(memory[lastAdd.ws], lastAdd.fact) = 1
          /\ ~lastAdd.changed

\* ------------------------------------------------------------------ C4
\* C4: a successful request invokes summarize_session once when it brings the
\* number of turns appended to its key to a multiple of 10, and not otherwise.
C4_SummarizedEveryTenTurns ==
    (Replied /\ Exclusive(req[1].key)) =>
        req[1].summarized =
            IF Len(appended[req[1].key]) % 10 = 0 THEN 1 ELSE 0


\* ------------------------------------------------------------------ C5
\* The calls of a request to the chat of the Model Invocation Loop (all but
\* the extraction request of the summarization).
ChatCalls(rq) == SelectSeq(rq.calls, LAMBDA c : c.kind # "extract")

KindCount(rq, kind) == Cardinality({i \in 1..Len(rq.calls) : rq.calls[i].kind = kind})

\* C5: the loop makes one first call and then at most one search prompt, one
\* reinforcement prompt and one follow-up prompt, four calls at most, and every
\* request that has started returns.
C5_LoopBoundedAndTerminates ==
    /\ [](/\ KindCount(req[1], "query") <= 1
          /\ KindCount(req[1], "search") <= 1
          /\ KindCount(req[1], "reinforce") <= 1
          /\ KindCount(req[1], "followup") <= 1
          /\ Len(ChatCalls(req[1])) <= 4)
    /\ (req[1].pc \notin {"idle", "done"}) ~> (req[1].pc = "done")

\* A request has returned after four calls of the loop.
C5_Witness ==
    /\ req[1].pc = "done"
    /\ Len(ChatCalls(req[1])) = 4
    /\ req[1].calls[3].kind = "reinforce"

\* ------------------------------------------------------------------ C6
\* C6: no exception leaves generate_response_with_history; a request that is
\* over has returned a text, as the reply or as the apology.
C6_NeverRaises ==
    /\ req[1].status # "raised"
    /\ req[1].pc = "done" =>
         /\ req[1].status \in {"replied", "failed"}
         /\ Len(req[1].reply) > 0

\* The text of the first response could not be read (an exception the loop
\* does not handle itself) and the request returned the apology.
C6_Witness ==
    /\ req[1].pc = "done"
    /\ req[1].status = "failed"
    /\ req[1].reply = ApologyText("ValueError")

\* ------------------------------------------------------------------ C7
\* Both are channel keys of one workspace, or the same key.
SameRecordKeys(a, b) ==
    \/ a = b
    \/ /\ a.chan # None /\ b.chan # None
       /\ a.pre = b.pre
       /\ a.pre \in {"workspace1", "workspace2"}

\* C7 as stated: no step of a request on a key changes what load_chat_history
\* returns for another key.
C7_OtherKeysUntouched ==
    [][\A b \in Keys \ {req[1].key} :
          load_chat_history(sessions', b) = load_chat_history(sessions, b)]_vars

\* C7 amended: no step of a request on a key changes what load_chat_history
\* returns for a key that is neither the same key nor, with it, a channel key
\* of the same workspace.
C7_OtherRecordsUntouched ==
    [][\A b \in Keys :
          ~SameRecordKeys(req[1].key, b) =>
              load_chat_history(sessions', b) = load_chat_history(sessions, b)]_vars

\* A request has written its record while another key, of another record,
\* has a history.
C7_Witness ==
    /\ Replied
    /\ \E b \in Keys :
          /\ ~SameRecordKeys(req[1].key, b)
          /\ Len(load_chat_history(sessions, b)) > 0

\* ------------------------------------------------------------------ C8
\* The stored turns that went into the context, each with its context entry.
StoredEntries(rq) ==
    LET recent == LastN(rq.chat_history, 20)
        off == Len(rq.ctx) - Len(recent)
    IN [i \in 1..Len(recent) |-> [turn |-> recent[i], entry |-> rq.ctx[off + i]]]

Prefixed(parts, name, content) == parts = <<name, ": ">> \o content

\* The names a stored user turn can carry.
StoredNames == {ALICE.name, "Unknown User"}

\* C8 as stated: in a channel request every stored user turn is prefixed with
\* a sender name and ": ", the live query is prefixed with the sender's name
\* (when the request names the sender), bot turns are not prefixed; in a
\* non-channel request nothing is prefixed.
C8_EveryUserTurnPrefixed ==
    Assembled =>
        LET rq == req[1]
            se == StoredEntries(rq)
        IN IF rq.is_channel
           THEN /\ \A i \in 1..Len(se) :
                      IF se[i].turn.role = "user"
                      THEN \E name \in StoredNames :
                              Prefixed(se[i].entry.parts, name, se[i].turn.content)
                      ELSE se[i].entry.parts = se[i].turn.content
                /\ rq.user_name # None =>
                      Prefixed(rq.current_query, rq.user_name, rq.query)
           ELSE /\ \A i \in 1..Len(se) : se[i].entry.parts = se[i].turn.content
                /\ rq.current_query = rq.query

\* C8 amended: in a channel request every stored user turn that carries a
\* user name is prefixed with that name and ": ", the live query is prefixed
\* with the sender's name when the request has one, and bot turns, user turns
\* stored without a name and a query without a sender name are not prefixed;
\* in a non-channel request nothing is prefixed.
C8_NamedUserTurnsPrefixed ==
    Assembled =>
        LET rq == req[1]
            se == StoredEntries(rq)
        IN IF rq.is_channel
           THEN /\ \A i \in 1..Len(se) :
                      IF se[i].turn.role = "user" /\ "user_name" \in DOMAIN se[i].turn
                      THEN Prefixed(se[i].entry.parts, se[i].turn.user_name,
                                    se[i].turn.content)
                      ELSE se[i].entry.parts = se[i].turn.content
                /\ IF rq.user_name # None
                   THEN Prefixed(rq.current_query, rq.user_name, rq.query)
                   ELSE rq.current_query = rq.query
           ELSE /\ \A i \in 1..Len(se) : se[i].entry.parts = se[i].turn.content
                /\ rq.current_query = rq.query

\* A channel request whose context has a prefixed user turn, a user turn
\* stored without a name, and a bot turn, and whose query is prefixed.
C8_Witness ==
    /\ Assembled
    /\ req[1].is_channel
    /\ req[1].current_query = NamePrefixed(ALICE.name, req[1].query)
    /\ LET se == StoredEntries(req[1])
       IN /\ \E i \in 1..Len(se) :
                /\ se[i].turn.role = "user"
                /\ "user_name" \in DOMAIN se[i].turn
                /\ se[i].entry.parts # se[i].turn.content
          /\ \E i \in 1..Len(se) :
                se[i].turn.role = "user" /\ "user_name" \notin DOMAIN se[i].turn
          /\ \E i \in 1..Len(se) : se[i].turn.role = "bot"

\* ------------------------------------------------------------------ C9
\* The record of the request's key holds exactly the user turn with the query
\* and then the bot turn with the reply.
TwoTurnsStored(rq) ==
    LET items == sessions[SessionFile(rq.key)].items
    IN /\ sessions[SessionFile(rq.key)].st = "ok"
       /\ Len(items) = 2
       /\ items[1].role = "user" /\ items[1].content = rq.query
       /\ items[2].role = "bot" /\ items[2].content = rq.reply

\* The first call of a request carries the current message.
FirstCallIsQuery(rq) ==
    Len(rq.calls) > 0 =>
        /\ rq.calls[1] = ModelCall("query", rq.current_query)
        /\ rq.current_query \in {rq.query, NamePrefixed(rq.user_name, rq.query)}

\* C9 as stated: with an empty history the context is empty and the model
\* gets the current message; after the reply the record holds the two turns.
C9_EmptyHistoryEmptyContext ==
    /\ (Assembled /\ Len(req[1].chat_history) = 0) =>
          /\ req[1].ctx = <<>>
          /\ FirstCallIsQuery(req[1])
    /\ (Saved /\ Len(req[1].chat_history) = 2) =>
          /\ req[1].ctx = <<>>
          /\ TwoTurnsStored(req[1])

\* The context of a request whose history is empty: nothing when the
\* workspace has no manager or its manager no fact, else the one memory entry
\* with the first 20 facts, one per line.
MemoryOnlyContext(rq) ==
    LET ws == WorkspaceOf(rq.key)
        facts == IF ws \in Workspaces THEN memory[ws] ELSE <<>>
    IN IF Len(facts) = 0 THEN <<>>
       ELSE <<[role |-> "model",
               parts |-> <<MEMORY_INTRO, NL, NL>> \o JoinLines(FirstN(facts, 20))]>>

\* C9 amended: with an empty history the context holds no prior turn: it is
\* empty when the memory context is blank and otherwise holds only the
\* memory entry; the model gets the current message; after the reply the
\* record holds the two turns.
C9_EmptyHistoryContext ==
    /\ (Assembled /\ Len(req[1].chat_history) = 0) =>
          /\ req[1].ctx = MemoryOnlyContext(req[1])
          /\ FirstCallIsQuery(req[1])
    /\ (Saved /\ Len(req[1].chat_history) = 2) => TwoTurnsStored(req[1])

\* A request on an empty history was answered with the memory entry as its
\* whole context, and its two turns are the record.
C9_Witness ==
    /\ Replied
    /\ Len(req[1].chat_history) = 2
    /\ Len(req[1].ctx) = 1
    /\ TwoTurnsStored(req[1])

\* ------------------------------------------------------------------ C10
\* The lines of a text; a text without a character has none.
Lines(text) == IF Len(text) = 0 THEN <<>> ELSE SplitLines(text)

\* C10: the lines of get_context_for_user are the first min(20, n) of the n
\* stored facts, in order.
C10_ContextFirstTwenty ==
    \A ws \in Workspaces :
        LET items == memory[ws]
            lines == Lines(get_context_for_user(items))
            m == Min(20, Len(items))
        IN /\ Len(lines) = m
           /\ \A i \in 1..m : lines[i] = items[i]

\* A manager holds 23 facts and its context has 20 lines.
C10_Witness ==
    \E ws \in Workspaces :
        /\ Len(memory[ws]) = 23
        /\ Len(Lines(get_context_for_user(memory[ws]))) = 20

\* ------------------------------------------------------------------ C11
IsPrefix(s, t) == Len(s) <= Len(t) /\ \A i \in 1..Len(s) : s[i] = t[i]

\* The facts of a memory record that parses.
RecordFacts(rec) == IF rec.st = "ok" THEN rec.items ELSE <<>>

\* C11: every add_memory call and every summarization run leaves the fact
\* list of each manager, and the facts of each record, with what they held
\* before as a prefix.
C11_FactListOnlyGrows ==
    [][\A ws \in Workspaces :
          /\ IsPrefix(memory[ws], memory'[ws])
          /\ IsPrefix(RecordFacts(memfile[ws]), RecordFacts(memfile'[ws]))]_vars

\* A summarization run has added to a list that add_memory had added to.
C11_Witness ==
    /\ lastRun.kind = "request"
    /\ Contains(lastRun.mem, FACT_B)
    /\ Len(memory[lastRun.ws]) > Len(lastRun.mem)

\* ------------------------------------------------------------------ C12
\* A response without a text that can be read, whose parts hold a function
\* call of another name than search_web and no search_web call.
UnsupportedCall(response) ==
    /\ response.acc # "text"
    /\ response.shape = "parts"
    /\ \E i \in 1..Len(response.parts) :
          /\ response.parts[i].fc.has = "call"
          /\ response.parts[i].fc.name # "search_web"
    /\ \A i \in 1..Len(response.parts) :
          response.parts[i].fc.has \in {"absent", "call"}
          /\ response.parts[i].fc.name # "search_web"

\* The first response of the request of handler 1 is such a response.
FirstUnsupported ==
    /\ Len(req[1].outs) >= 1
    /\ req[1].outs[1].exc = None
    /\ UnsupportedCall(req[1].outs[1].resp)

\* C12: when the first response has no text that can be read and holds a
\* function call that is not search_web, _process_function_calls returns the
\* fixed fallback text, no further model call is made and nothing is raised
\* (the request goes on to store the fallback as its reply).
C12_UnsupportedCallFallback ==
    FirstUnsupported =>
        /\ Len(ChatCalls(req[1])) = 1
        /\ req[1].status \notin {"failed", "raised"}
        /\ req[1].reply = MSG_NO_SEARCH

\* ------------------------------------------------------------------ C13
\* The summarization run of the request of handler 1 is over, and its
\* extraction request failed.
FailedExtraction == Replied /\ lastRun.kind = "request" /\ ~lastRun.ext.ok

\* The reply of the request is the one the loop gave, the content of the bot
\* turn it stored.
ReplyAsStored(rq) ==
    /\ Len(rq.chat_history) > 0
    /\ rq.reply = rq.chat_history[Len(rq.chat_history)].content

\* The facts 'User {id}: {name}' of the user turns of a history that carry a
\* name.
NamedUserFacts(chat_history) ==
    {UserFact(chat_history[i].user_id, chat_history[i].user_name) :
        i \in {j \in 1..Len(chat_history) :
                 /\ chat_history[j].role = "user"
                 /\ "user_name" \in DOMAIN chat_history[j]}}

CallFailed(rq) == \E i \in 1..Len(rq.outs) : rq.outs[i].exc # None

\* The texts the code returns for a failure: the apology of
\* generate_response_with_history and the error text of the search_web round.
IsApology(rq) ==
    \/ \E i \in 1..Len(rq.outs) :
          rq.outs[i].exc # None /\ rq.reply = ApologyText(rq.outs[i].exc)
    \/ rq.reply = SearchErrorText(rq.current_query, rq.result_text)

\* C14: a request one of whose model calls failed returns an apology text,
\* and no step of it changes a history record, a memory record or a
\* manager's fact list.
C14_FailedCallLeavesRecords ==
    /\ []((req[1].pc = "done" /\ CallFailed(req[1])) => IsApology(req[1]))
    /\ [][CallFailed(req[1]) =>
             /\ sessions' = sessions
             /\ memfile' = memfile
             /\ memory' = memory]_vars

\* ------------------------------------------------------------------ C15
\* C15: load_chat_history gives the empty history for every key whose record
\* is missing or does not read or parse, and raises for no key; a request
\* entered on such a key goes on with the empty history.
C15_LoadEmptyNeverRaises ==
    /\ \A key \in Keys :
          /\ ~LoadRaises(sessions, key)
          /\ sessions[SessionFile(key)].st # "ok" =>
                load_chat_history(sessions, key) = <<>>
    /\ \A h \in Handlers :
          /\ req[h].status # "raised"
          /\ (req[h].pc = "assemble"
                /\ sessions[SessionFile(req[h].key)].st # "ok") =>
                req[h].chat_history = <<>>

\* A request has been entered on a key whose record does not parse.
C15_Witness ==
    /\ req[1].pc = "assemble"
    /\ sessions[SessionFile(req[1].key)].st = "corrupt"
    /\ req[1].chat_history = <<>>

\* ------------------------------------------------------------------ C16
\* The two turns a successful request of Alice appends to a key.
TwoTurns(key) ==
    <<UserTurn(key, HELLO, TRUE, ALICE.id, ALICE.name, 1),
      BotTurn(key, ANSWER, TRUE, 1)>>

\* C16: a record that does not parse is read as empty and replaced by the
\* next write: the write-back of a request on a key with such a history
\* record leaves exactly the request's two turns, and add_memory(f) on a
\* manager with such a memory record leaves a readable record holding f.
C16_CorruptRecordReplaced ==
    [][/\ \A key \in Keys :
             sessions[SessionFile(key)].st = "corrupt" =>
                /\ load_chat_history(sessions, key) = <<>>
                /\ save_chat_history(sessions, key,
                                     load_chat_history(sessions, key)
                                        \o TwoTurns(key))[SessionFile(key)]
                      = OkRecord(json_dump(TwoTurns(key)))
       /\ \A ws \in Workspaces :
             (/\ memfile[ws].st = "corrupt"
              /\ lastAdd'.ws = ws
              /\ AddMemory(ws, lastAdd'.fact)) =>
                /\ memfile'[ws].st = "ok"
                /\ Contains(memfile'[ws].items, lastAdd'.fact)]_vars

Verbatim(text) == \A k \in 1..Len(text) : text[k] \notin {QUOTE, BACKSLASH, NL}

\* C18: when a request has saved a history of at most 100 turns, loading the
\* key gives the same turns with the same content, and a content without
\* quotation mark, backslash and line break stands in the record as it is,
\* characters outside ASCII included.
C18_SaveLoadRoundTrip ==
    (Saved /\ Len(req[1].chat_history) <= 100) =>
        LET turns == req[1].chat_history
            rec == sessions[SessionFile(req[1].key)]
        IN /\ rec.st = "ok"
           /\ Len(rec.items) = Len(turns)
           /\ load_chat_history(sessions, req[1].key) = turns
           /\ \A i \in 1..Len(turns) :
                 Verbatim(turns[i].content) =>
                    rec.items[i].content = turns[i].content

\* Four turns have been saved, among them a content of Korean text and an
\* emoji only and one with a quotation mark, a backslash and a line break.
C18_Witness ==
    /\ Saved
    /\ Len(req[1].chat_history) = 4
    /\ \E i \in 1..4 :
          /\ Verbatim(req[1].chat_history[i].content)
          /\ Contains(req[1].chat_history[i].content, HANGUL)
          /\ Contains(req[1].chat_history[i].content, EMOJI)
    /\ \E i \in 1..4 :
          /\ Contains(req[1].chat_history[i].content, QUOTE)
          /\ Contains(req[1].chat_history[i].content, BACKSLASH)
          /\ Contains(req[1].chat_history[i].content, NL)
          /\ Contains(req[1].chat_history[i].content, HANGUL)

\* ------------------------------------------------------------------ C19
\* C19: after a summarization run, in a request or by the job, the memory
\* record of the workspace holds exactly once the fact 'User {id}: {name}'
\* of every user turn of the history that carries a name, however many of
\* the user's turns and however many runs there have been.
C19_UserFactHeldOnce ==
    lastRun.kind # "none" =>
        \A fact \in NamedUserFacts(lastRun.hist) :
            Count(RecordFacts(memfile[lastRun.ws]), fact) = 1

\* ------------------------------------------------------------------ C20
\* A text that is the sentinel: NOTHING or none, in any case.
IsSentinel(text) == LowerText(Strip(text)) \in {<<"nothing">>, <<"none">>}

\* The non-blank lines, trimmed, the sentinel left out.
RECURSIVE WantedLines(_)
WantedLines(lines) ==
    IF Len(lines) = 0 THEN <<>>
    ELSE (IF ~IsBlank(Head(lines)) /\ ~IsSentinel(Head(lines))
          THEN <<Strip(Head(lines))>> ELSE <<>>)
         \o WantedLines(Tail(lines))

\* The facts an extraction response is to insert.
WantedFacts(ext) ==
    IF ~ext.ok \/ IsSentinel(ext.text) THEN <<>>
    ELSE WantedLines(SplitLines(ext.text))

\* C20: after a summarization run, in a request or by the job, on a
\* well-formed memory record, every fact that is new in the record is a user
\* fact or a non-blank line of the extraction response, trimmed, and not the
\* sentinel, and every such line is in the record.
C20_ExtractedLinesInserted ==
    (lastRun.kind # "none" /\ lastRun.rec.st = "ok") =>
        LET after == RecordFacts(memfile[lastRun.ws])
            before == RecordFacts(lastRun.rec)
            wanted == WantedFacts(lastRun.ext)
        IN /\ \A i \in 1..Len(after) :
                 \/ Contains(before, after[i])
                 \/ after[i] \in NamedUserFacts(lastRun.hist)
                 \/ Contains(wanted, after[i]) /\ ~IsSentinel(after[i])
           /\ \A i \in 1..Len(wanted) : Contains(after, wanted[i])

\* ------------------------------------------------------------------ C21
\* The arguments of the first search_web call among the parts.
RECURSIVE SearchArgs(_)
SearchArgs(parts) ==
    IF Len(parts) = 0 THEN NoArgs
    ELSE IF Head(parts).fc.has = "call" /\ Head(parts).fc.name = "search_web"
    THEN Head(parts).fc.args
    ELSE SearchArgs(Tail(parts))

\* The request is in a search_web round whose call had arguments that do not
\* parse or hold no query.
FallbackSearch(rq) ==
    /\ rq.pc \in {"search", "reinforce", "followup"}
    /\ SearchArgs(rq.outs[1].resp.parts).kind
          \in {"str_noquery", "str_bad", "obj_noquery"}

\* C21: in a search_web round whose call had arguments that do not parse or
\* hold no query, the query of the search prompts is the query of the
\* request as received.
C21_FallbackIsRawQuery ==
    \A h \in Handlers :
        FallbackSearch(req[h]) =>
            /\ req[h].sq = req[h].query
            /\ \A i \in 2..Len(req[h].calls) : req[h].calls[i].q = req[h].query

\* ------------------------------------------------------------------ C22
\* C22: the context of a request is the memory entry, present exactly when
\* the memory context of the workspace is not blank, followed by the last
\* min(20, n) of the n loaded turns in stored order, a user turn with role
\* user and any other with role model; it has at most 21 entries.
C22_ContextShape ==
    Assembled =>
        LET rq == req[1]
            n == Len(rq.chat_history)
            k == Min(20, n)
            mc == MemoryContext(memory, WorkspaceOf(rq.key))
            m == IF IsBlank(mc) THEN 0 ELSE 1
        IN /\ Len(rq.ctx) = m + k
           /\ Len(rq.ctx) <= 21
           /\ m = 1 => /\ rq.ctx[1].role = "model"
                       /\ rq.ctx[1].parts = <<MEMORY_INTRO, NL, NL>> \o mc
           /\ \A i \in 1..k :
                 LET turn == rq.chat_history[n - k + i]
                     entry == rq.ctx[m + i]
                 IN /\ entry.role = IF turn.role = "user" THEN "user" ELSE "model"
                    /\ \/ entry.parts = turn.content
                       \/ /\ turn.role = "user"
                          /\ "user_name" \in DOMAIN turn
                          /\ entry.parts = NamePrefixed(turn.user_name, turn.content)

\* A request on a history of more than twenty turns has the memory entry
\* and twenty turns as its context, the last of them the last stored turn.
C22_Witness ==
    /\ Assembled
    /\ Len(req[1].chat_history) > 20
    /\ Len(req[1].ctx) = 21
    /\ req[1].ctx[1].parts[1] = MEMORY_INTRO
    /\ req[1].ctx[21].parts = req[1].chat_history[Len(req[1].chat_history)].content

\* ------------------------------------------------------------------ C23
\* The request is on a workspace that has no memory manager.
NoManager(rq) == WorkspaceOf(rq.key) \notin Workspaces

\* C23: a request on a workspace without a memory manager is not ended by
\* the failed lookup: its context holds the stored turns and no memory
\* entry, and when the model answers, the answer is the reply and the record
\* ends with the request's two turns.
C23_NoMemoryNoAbort ==
    LET rq == req[1]
    IN NoManager(rq) =>
          /\ rq.status # "raised"
          /\ Assembled =>
                /\ Len(rq.ctx) = Min(20, Len(rq.chat_history))
                /\ \A i \in 1..Len(rq.ctx) : rq.ctx[i].parts[1] # MEMORY_INTRO
          /\ (rq.pc = "done" /\ Len(rq.outs) > 0 /\ rq.outs[1].exc = None) =>
                LET stored == load_chat_history(sessions, rq.key)
                    n == Len(stored)
                IN /\ rq.status = "replied"
                   /\ rq.reply = rq.outs[1].resp.text
                   /\ stored = rq.chat_history
                   /\ n >= 2
                   /\ stored[n - 1].role = "user" /\ stored[n - 1].content = rq.query
                   /\ stored[n].role = "bot" /\ stored[n].content = rq.reply

\* The second request on the key of a workspace without a manager has been
\* answered while the manager of workspace1 holds a fact.
C23_Witness ==
    /\ Replied
    /\ NoManager(req[1])
    /\ Len(req[1].ctx) = 2
    /\ Len(load_chat_history(sessions, req[1].key)) = 4
    /\ Len(memory["workspace1"]) > 0

\* ------------------------------------------------------------------ C24
\* A request on the key has begun and the key is to receive at least five
\* more answered requests after it.
MoreToCome ==
    /\ req[1].pc = "assemble"
    /\ Len(appended[K_W1C1]) + 2 * 6 <= 2 * MaxLongRequests

HasSaved(h) ==
    req[h].pc = "summarize" \/ (req[h].pc = "done" /\ req[h].status = "replied")

\* The save of handler h was the latest on its key.
SavedLast(h) ==
    /\ HasSaved(h)
    /\ LastN(appended[req[h].key], 2) = LastN(req[h].chat_history, 2)

\* C25: the record of a key is what the handler that saved last loaded when
\* it was entered, followed by its own two turns: turns another handler saved
\* in between are not in it.
C25_LastWriteWins ==
    \A h \in Handlers :
        SavedLast(h) =>
            load_chat_history(sessions, req[h].key)
               = TrimHistory(req[h].loaded \o LastN(req[h].chat_history, 2))

\* Two requests on an empty record have both replied, and the record holds
\* the two turns of one of them only.
C25_Witness ==
    /\ \A h \in Handlers : req[h].pc = "done" /\ req[h].status = "replied"
    /\ req[1].key = req[2].key
    /\ Len(appended[req[1].key]) = 4
    /\ Len(load_chat_history(sessions, req[1].key)) = 2
    /\ \E h \in Handlers : load_chat_history(sessions, req[1].key) = req[h].chat_history

\* ------------------------------------------------------------------ C26
\* C26: whatever the order of the steps of two add_memory calls that run at
\* the same time on one workspace, no fact is twice in the manager's list or
\* in the record.
C26_NoDuplicatesConcurrent ==
    \A ws \in Workspaces :
        /\ NoDuplicates(memory[ws])
        /\ NoDuplicates(RecordFacts(memfile[ws]))

\* ------------------------------------------------------------------ C27
\* C27: after add_memory returns, the record of the workspace exists and
\* holds the fact sequence that get_memory returns.
C27_RecordAgreesAfterAdd ==
    lastAdd.times >= 1 =>
        /\ memfile[lastAdd.ws].st = "ok"
        /\ memfile[lastAdd.ws].items = memory[lastAdd.ws]

\* ------------------------------------------------------------------ C28
\* The standalone job has just run: the facts it added to the record of its
\* workspace, which the record did not hold before the run.
JobAdded ==
    IF lastRun.kind = "job"
    THEN {RecordFacts(memfile[lastRun.ws])[i] :
            i \in {j \in 1..Len(RecordFacts(memfile[lastRun.ws])) :
                     ~Contains(RecordFacts(lastRun.rec),
                               RecordFacts(memfile[lastRun.ws])[j])}}
    ELSE {}

\* C28: the facts the standalone job added to the record of a workspace are
\* in the list get_memory returns (the list get_context_for_user formats)
\* of the bot's manager once the bot's next summarization on that workspace
\* has run.
C28_JobFactsVisibleAfterSummarization ==
    [][(/\ lastRun.kind = "job"
        /\ lastRun'.kind = "request"
        /\ lastRun'.ws = lastRun.ws)
       => \A fact \in JobAdded : Contains(memory'[lastRun.ws], fact)]_vars

\* ------------------------------------------------------------------ C29
\* The first model call of the request of handler 1 gave a response whose
\* .text can be read.
FirstGivesText ==
    /\ Len(req[1].outs) >= 1
    /\ req[1].outs[1].exc = None
    /\ req[1].outs[1].resp.acc = "text"

\* The calls of the loop: all model calls but the extraction request of the
\* summarization.
LoopCalls(rq) == {i \in 1..Len(rq.calls) : rq.calls[i].kind # "extract"}

\* C29: when the first response yields its text directly, that text is the
\* reply and the loop makes no further model call.
C29_DirectTextIsReply ==
    FirstGivesText =>
        /\ req[1].reply = req[1].outs[1].resp.text
        /\ LoopCalls(req[1]) = {1}
        /\ req[1].calls[1].kind = "query"
        /\ req[1].pc \in {"save", "summarize", "done"}
        /\ req[1].pc = "done" => req[1].status = "replied"

\* A request has returned the text of its first response.
C29_Witness ==
    /\ FirstGivesText
    /\ req[1].pc = "done"
    /\ req[1].status = "replied"
    /\ req[1].reply = ANSWER

\* ------------------------------------------------------------------ C30
\* The i-th model call of the request was a search prompt that returned a
\* response whose candidates and parts could be gone through.
SearchChecked(rq, i) ==
    /\ rq.calls[i].kind = "search"
    /\ rq.outs[i].exc = None
    /\ rq.outs[i].resp.shape # "nopartsattr"

\* hasattr(part, 'function_call') and part.function_call, for some part
HasFunctionCall(response) ==
    /\ response.shape = "parts"
    /\ \E j \in 1..Len(response.parts) : response.parts[j].fc.has = "call"

\* What follows the i-th call: the kind of the next call, or the step the
\* request is at when that call is yet to be made.
NextCallKind(rq, i) ==
    IF i < Len(rq.calls) THEN rq.calls[i + 1].kind
    ELSE IF rq.pc = "reinforce" THEN "reinforce"
    ELSE IF rq.pc = "followup" THEN "followup"
    ELSE "none"

\* C30: after the search prompt the reinforcement prompt comes exactly when
\* the response to the search prompt holds no function call, and then the
\* follow-up; with a function call the follow-up comes at once.  A request
\* sends the reinforcement prompt at most once, and only after such a search
\* response.
C30_ReinforceIffNoCall ==
    LET rq == req[1]
    IN /\ \A i \in 1..Len(rq.outs) :
             SearchChecked(rq, i) =>
                NextCallKind(rq, i) = IF HasFunctionCall(rq.outs[i].resp)
                                      THEN "followup" ELSE "reinforce"
       /\ \A i \in 1..Len(rq.outs) :
             rq.calls[i].kind = "reinforce" =>
                /\ i > 1
                /\ SearchChecked(rq, i - 1)
                /\ ~HasFunctionCall(rq.outs[i - 1].resp)
                /\ rq.outs[i].exc = None => NextCallKind(rq, i) = "followup"
       /\ Cardinality({i \in 1..Len(rq.calls) : rq.calls[i].kind = "reinforce"}) <= 1

\* A round whose search response held no function call: the reinforcement
\* prompt and then the follow-up were sent.
C30_Witness ==
    /\ Len(req[1].outs) = 4
    /\ SearchChecked(req[1], 2)
    /\ ~HasFunctionCall(req[1].outs[2].resp)
    /\ req[1].calls[3].kind = "reinforce"
    /\ req[1].calls[4].kind = "followup"

\* ------------------------------------------------------------------ C31
\* The request of handler 1 went through a search_web round in which no
\* model call raised and whose search response could be gone through, and
\* the round is over.
RoundDone ==
    /\ req[1].pc \in {"save", "summarize", "done"}
    /\ Len(req[1].outs) >= 2
    /\ req[1].calls[2].kind = "search"
    /\ \A i \in 1..Len(req[1].outs) : req[1].outs[i].exc = None
    /\ SearchChecked(req[1], 2)

\* The follow-up prompt is sent once, as the last call of the loop, after
\* the search prompt and the reinforcement prompt.
FollowUpLast ==
    LET rq == req[1]
        n == Len(rq.outs)
    IN /\ {i \in 1..Len(rq.calls) : rq.calls[i].kind = "followup"} = {n}
       /\ LoopCalls(rq) = 1..n
       /\ n \in {3, 4}
       /\ rq.calls[1].kind = "query"
       /\ n = 4 => rq.calls[3].kind = "reinforce"

\* The text a response carries: what .text gives, or the texts of its parts.
CarriedText(response) ==
    IF response.acc = "text" THEN response.text
    ELSE IF response.shape = "parts" THEN PartsText(response.parts)
    ELSE <<>>

\* The follow-up response has a text the code can read: .text gives it, or
\* .text raises what the code catches and some part has a text.
ReadableText(response) ==
    \/ response.acc = "text"
    \/ /\ CatchesText(response.acc)
       /\ response.shape = "parts"
       /\ Len(PartsText(response.parts)) > 0

\* C31 as stated: in a round where no call raises the follow-up prompt is
\* sent once, last, and the reply is the text of its response.
C31_FollowUpTextIsReply ==
    RoundDone =>
        /\ FollowUpLast
        /\ req[1].reply = CarriedText(req[1].outs[Len(req[1].outs)].resp)

\* C31: in a round where no call raises the follow-up prompt is sent once,
\* last; the reply is the text of its response when the code can read one,
\* and one of two fixed messages otherwise.
C31_FollowUpReadableTextIsReply ==
    RoundDone =>
        /\ FollowUpLast
        /\ LET response == req[1].outs[Len(req[1].outs)].resp
           IN IF ReadableText(response)
              THEN req[1].reply = CarriedText(response)
              ELSE req[1].reply \in
                     {MSG_FOUND_UNPROCESSED,
                      SearchErrorText(req[1].current_query, req[1].result_text)}

\* A round with a reinforcement prompt whose follow-up response gave its
\* text in two parts.
C31_Witness ==
    /\ RoundDone
    /\ Len(req[1].outs) = 4
    /\ req[1].outs[4].resp.acc = "AttributeError"
    /\ req[1].reply = FOUND \o ANSWER

\* ------------------------------------------------------------------ C32
\* A response from which .text cannot be read (AttributeError or TypeError)
\* and whose parts, if it has any, hold no text.
NoTextIn(response) ==
    /\ CatchesText(response.acc)
    /\ response.shape = "parts" => Len(PartsText(response.parts)) = 0

\* The direct path yields no text: the request ended on its first response,
\* which has no text and no part with a function_call attribute.
DirectYieldsNothing ==
    /\ req[1].pc \in {"save", "summarize", "done"}
    /\ Len(req[1].outs) = 1
    /\ req[1].outs[1].exc = None
    /\ NoTextIn(req[1].outs[1].resp)
    /\ req[1].outs[1].resp.shape = "parts" =>
          \A i \in 1..Len(req[1].outs[1].resp.parts) :
              req[1].outs[1].resp.parts[i].fc.has = "absent"

\* The tool path yields no text: a round in which no call raised ended on a
\* follow-up response whose parts hold no text.
ToolYieldsNothing ==
    /\ RoundDone
    /\ NoTextIn(req[1].outs[Len(req[1].outs)].resp)
    /\ req[1].outs[Len(req[1].outs)].resp.shape = "parts"

\* C32 as stated: when the direct path or the tool path ends without a text,
\* the reply is "I couldn't generate a response. Please try again."
C32_NoTextFixedFallback ==
    (DirectYieldsNothing \/ ToolYieldsNothing) => req[1].reply = MSG_NO_RESPONSE

\* C32: a first response without text and without function call is answered
\* by "I couldn't generate a response. Please try again."; a follow-up
\* response without text parts is answered by "I found some information, but
\* couldn't process it properly."
C32_NoTextFallbackByPath ==
    /\ DirectYieldsNothing => req[1].reply = MSG_NO_RESPONSE
    /\ ToolYieldsNothing => req[1].reply = MSG_FOUND_UNPROCESSED

\* A round ended on a follow-up response whose only part is a function call.
C32_Witness ==
    /\ ToolYieldsNothing
    /\ Len(req[1].outs[Len(req[1].outs)].resp.parts) = 1
    /\ req[1].reply = MSG_FOUND_UNPROCESSED
    /\ req[1].pc = "done"

\* ------------------------------------------------------------------ C33
\* The query the code reads from the search_web call of the first response;
\* current_query when it reads none.
RequestedQuery(rq) ==
    LET args == SearchArgs(rq.outs[1].resp.parts)
    IN IF args.kind \in {"str_query", "obj_query"} THEN args.q ELSE rq.current_query

\* Before the k-th call a response to the search prompt or to the
\* reinforcement prompt held a function call: the model ran its search.
SearchShown(rq, k) ==
    \E j \in 2..(k - 1) :
        /\ rq.calls[j].kind \in {"search", "reinforce"}
        /\ rq.outs[j].exc = None
        /\ HasFunctionCall(rq.outs[j].resp)

\* The search prompt with the requested query is the second call and comes
\* before the k-th.
SearchPromptBefore(rq, k) ==
    /\ k > 2
    /\ rq.calls[2] = ModelCall("search", RequestedQuery(rq))

QueryCarried(rq) ==
    /\ Len(rq.outs) >= 1
    /\ rq.outs[1].exc = None
    /\ \/ rq.pc \in {"search", "reinforce", "followup"}
       \/ Len(rq.calls) >= 2 /\ rq.calls[2].kind = "search"
    /\ SearchArgs(rq.outs[1].resp.parts).kind \in {"str_query", "obj_query", "map_query"}

\* C34: when the arguments of the search_web call carry a query, the search,
\* reinforcement and follow-up prompts are made with that query.
C34_RequestedQueryUsed ==
    QueryCarried(req[1]) =>
        LET q == SearchArgs(req[1].outs[1].resp.parts).q
        IN /\ req[1].pc \in {"search", "reinforce", "followup"} => req[1].sq = q
           /\ \A i \in 2..Len(req[1].calls) :
                 req[1].calls[i].kind \in {"search", "reinforce", "followup"} =>
                     req[1].calls[i].q = q

\* ------------------------------------------------------------------ C35
\* The record of the request's key is as the request loaded it.
NotYetPersisted(rq) == load_chat_history(sessions, rq.key) = rq.loaded

\* The record of the request's key is what the request loaded and then its
\* two turns: the query as a user turn and the reply as a bot turn.
Persisted(rq) ==
    LET rec == load_chat_history(sessions, rq.key)
        n == Len(rec)
    IN /\ n = Len(rq.loaded) + 2
       /\ SubSeq(rec, 1, n - 2) = rq.loaded
       /\ rec[n - 1].role = "user" /\ rec[n - 1].content = rq.query
       /\ rec[n].role = "bot" /\ rec[n].content = rq.reply

\* C35: a request reads the history and builds the context, then calls the
\* model, then writes its two turns back, then summarizes if the length of
\* its history is a multiple of ten, then returns: nothing is written before
\* the loop has ended, the turns are in the record when the summarization
\* runs, and a request that had to summarize has done so when it returns.
C35_StepsInOrder ==
    LET rq == req[1]
        running == rq.status = "running" /\ rq.summarized = 0
    IN /\ rq.pc = "assemble" =>
             running /\ rq.calls = <<>> /\ NotYetPersisted(rq)
       /\ rq.pc \in {"send", "search", "reinforce", "followup", "save"} =>
             /\ running
             /\ NotYetPersisted(rq)
             /\ rq.ctx = FormatHistory(rq.loaded,
                                       MemoryContext(memory, WorkspaceOf(rq.key)),
                                       rq.is_channel)
             /\ rq.pc # "send" => Len(rq.calls) >= 1
       /\ rq.pc = "summarize" =>
             running /\ Persisted(rq) /\ Len(rq.calls) >= 1
       /\ Replied =>
             /\ Persisted(rq)
             /\ rq.summarized = IF Len(rq.chat_history) % 10 = 0 THEN 1 ELSE 0
             /\ rq.calls[1].kind = "query"
             /\ rq.summarized = 1 => rq.calls[Len(rq.calls)].kind = "extract"

\* A request that summarized has returned.
C35_Witness ==
    /\ Replied
    /\ req[1].summarized = 1
    /\ Persisted(req[1])
    /\ Len(req[1].chat_history) = 10

\* ------------------------------------------------------------------ C36
\* user, bot, user, bot, ...: a user turn first, a bot turn last.
Alternating(turns) ==
    /\ Len(turns) % 2 = 0
    /\ \A i \in 1..Len(turns) :
          turns[i].role = IF i % 2 = 1 THEN "user" ELSE "bot"

\* C36: with requests handled one at a time from empty records, every
\* persisted History Record alternates user and bot turns from a user turn
\* on and has even length, also once it has been cut at 100 turns.
C36_RecordAlternates ==
    \A key \in LongKeys :
        /\ sessions[SessionFile(key)].st \in {"absent", "ok"}
        /\ Alternating(load_chat_history(sessions, key))

\* A record that has been cut: 100 turns held, more appended.
C36_Witness ==
    /\ Len(load_chat_history(sessions, K_W1C1)) = 100
    /\ Len(appended[K_W1C1]) > 100
    /\ load_chat_history(sessions, K_W1C1)[1].role = "user"

\* ------------------------------------------------------------------ C37
\* The texts the requests bring, as received.
RawTexts == {HELLO, TEA}

\* How many name prefixes a context entry puts before the stored content:
\* none, one, or more than that.
PrefixCount(parts, content) ==
    IF parts = content THEN 0
    ELSE IF \E name \in StoredNames : Prefixed(parts, name, content) THEN 1
    ELSE 2

\* The user turn the request appended holds the text as received.
StoredRaw(rq) ==
    LET n == Len(rq.chat_history)
    IN /\ rq.chat_history[n - 1].role = "user"
       /\ rq.chat_history[n - 1].content = rq.query
       /\ rq.query \in RawTexts

\* C37: the appended user turn holds the text as received, and in every
\* assembled context each stored user turn has the name prefix exactly once,
\* also once the record is past its cap.
C37_PrefixedExactlyOnce ==
    /\ Saved => StoredRaw(req[1])
    /\ Assembled =>
          LET se == StoredEntries(req[1])
          IN \A i \in 1..Len(se) :
                se[i].turn.role = "user" =>
                    /\ se[i].turn.content \in RawTexts
                    /\ PrefixCount(se[i].entry.parts, se[i].turn.content) = 1

\* The context of a request on a record that has been cut: twenty stored
\* turns, a user turn among them with its one prefix.
C37_Witness ==
    /\ Assembled
    /\ Len(appended[req[1].key]) > 100
    /\ LET se == StoredEntries(req[1])
       IN /\ Len(se) = 20
          /\ se[19].turn.role = "user"
          /\ Prefixed(se[19].entry.parts, ALICE.name, se[19].turn.content)

\* ------------------------------------------------------------------ C38
\* C38: once the manager of a workspace holds 20 facts or more, no
\* add_memory call and no summarization run changes what its
\* get_context_for_user returns.
C38_ContextFrozenAtTwenty ==
    [][\A ws \in Workspaces :
          Len(memory[ws]) >= 20 =>
              get_context_for_user(memory'[ws]) = get_context_for_user(memory[ws])]_vars

\* A summarization run has added two facts to a list of twenty: the context
\* is still the twenty facts held before.
C38_Witness ==
    /\ lastRun.kind = "request"
    /\ Len(lastRun.mem) = 20
    /\ Len(memory[lastRun.ws]) = 22
    /\ get_context_for_user(memory[lastRun.ws]) = JoinLines(lastRun.mem)

====
